---- MODULE Spec2Model ----
(***************************************************************************)
(* The query-safety pipeline of the banking NL-to-SQL application:         *)
(*   Agent/sql_validator.py   SQLValidator  (fix steps, three checks, log) *)
(*   Agent/gemini_agent.py    GeminiAgent   (ambiguity, generation,        *)
(*                                           correction, agent execution)  *)
(*   app.py                   BankingApp.handle_user_query                 *)
(*                                                                         *)
(* A text (Python str) is a tuple of one-character strings, so that the    *)
(* substring tests, str.replace and the regular expressions of the source  *)
(* are computed character by character, as Python computes them.          *)
(***************************************************************************)
EXTENDS Integers, Sequences, FiniteSets, TLC

----------------------------------------------------------------------------
(* Python str primitives                                                   *)

\* the grave accent of a code fence (a string literal takes it only with a closing ')
Backtick == SubSeq("`'", 1, 1)

LowerLetters == <<"a","b","c","d","e","f","g","h","i","j","k","l","m","n","o","p","q","r","s","t","u","v","w","x","y","z">> (* abcdefghijklmnopqrstuvwxyz *)
UpperLetters == <<"A","B","C","D","E","F","G","H","I","J","K","L","M","N","O","P","Q","R","S","T","U","V","W","X","Y","Z">> (* ABCDEFGHIJKLMNOPQRSTUVWXYZ *)
DigitChars == <<"0","1","2","3","4","5","6","7","8","9">> (* 0123456789 *)

LowerSet == {LowerLetters[i] : i \in 1..Len(LowerLetters)}
UpperSet == {UpperLetters[i] : i \in 1..Len(UpperLetters)}

\* \w of the re module, on the ASCII characters the model uses
WordChars == LowerSet \cup UpperSet \cup {DigitChars[i] : i \in 1..Len(DigitChars)} \cup {"_"}

\* \s of the re module
SpaceChars == {" ", "\n", "\t"}

UpCase == [c \in LowerSet |-> UpperLetters[CHOOSE i \in 1..Len(LowerLetters) : LowerLetters[i] = c]]
DownCase == [c \in UpperSet |-> LowerLetters[CHOOSE i \in 1..Len(UpperLetters) : UpperLetters[i] = c]]

\* str.upper()
Upper(s) == [i \in 1..Len(s) |-> IF s[i] \in LowerSet THEN UpCase[s[i]] ELSE s[i]]

\* str.lower()
Lower(s) == [i \in 1..Len(s) |-> IF s[i] \in UpperSet THEN DownCase[s[i]] ELSE s[i]]

\* p occurs in s at index i
Match(s, i, p) ==
    /\ i >= 1
    /\ i + Len(p) - 1 <= Len(s)
    /\ \A k \in 1..Len(p) : s[i + k - 1] = p[k]

\* p in s (p is never empty here)
Contains(s, p) == \E i \in 1..(Len(s) - Len(p) + 1) : s[i] = p[1] /\ Match(s, i, p)

\* s.startswith(p)
StartsWith(s, p) == Match(s, 1, p)

\* the first index >= from at which p occurs in s; 0 when there is none
NextMatch(s, p, from) ==
    IF \E i \in from..(Len(s) - Len(p) + 1) : Match(s, i, p)
    THEN CHOOSE i \in from..(Len(s) - Len(p) + 1) :
            Match(s, i, p) /\ \A j \in from..(i - 1) : ~Match(s, j, p)
    ELSE 0

\* s.find(p), 1-based; 0 when absent
Find(s, p) == NextMatch(s, p, 1)

\* s[from:], 1-based
From(s, from) == SubSeq(s, from, Len(s))

RECURSIVE ReplaceFrom(_, _, _, _)
\* one step per occurrence: the text up to the next occurrence, new, and the rest
ReplaceFrom(s, old, new, from) ==
    LET i == NextMatch(s, old, from) IN
    IF i = 0 THEN From(s, from)
    ELSE SubSeq(s, from, i - 1) \o new \o ReplaceFrom(s, old, new, i + Len(old))

\* s.replace(old, new): every occurrence, leftmost first, non-overlapping
Replace(s, old, new) == IF Contains(s, old) THEN ReplaceFrom(s, old, new, 1) ELSE s

RECURSIVE SubICFrom(_, _, _, _, _)
SubICFrom(s, ls, old, new, from) ==
    LET i == NextMatch(ls, old, from) IN
    IF i = 0 THEN From(s, from)
    ELSE SubSeq(s, from, i - 1) \o new \o SubICFrom(s, ls, old, new, i + Len(old))

\* re.compile(re.escape(old), re.IGNORECASE).sub(new, s), old in lower case
SubIC(s, old, new) ==
    IF Contains(Lower(s), old) THEN SubICFrom(s, Lower(s), old, new, 1) ELSE s

\* \b before index i of s / after index j of s, next to a word character
BoundaryBefore(s, i) == i = 1 \/ s[i - 1] \notin WordChars
BoundaryAfter(s, j) == j = Len(s) \/ s[j + 1] \notin WordChars

\* \bw\b matches s at index i (w begins and ends with a word character)
WordAt(s, i, w) ==
    /\ Match(s, i, w)
    /\ BoundaryBefore(s, i)
    /\ BoundaryAfter(s, i + Len(w) - 1)

\* re.search(r"\bw\b", s)
HasWord(s, w) == \E i \in 1..(Len(s) - Len(w) + 1) : WordAt(s, i, w)

\* the first index >= from at which \bw\b matches s; 0 when there is none
NextWord(s, w, from) ==
    IF \E i \in from..(Len(s) - Len(w) + 1) : WordAt(s, i, w)
    THEN CHOOSE i \in from..(Len(s) - Len(w) + 1) :
            WordAt(s, i, w) /\ \A j \in from..(i - 1) : ~WordAt(s, j, w)
    ELSE 0

RECURSIVE SubWordICFrom(_, _, _, _, _)
SubWordICFrom(s, ls, w, new, from) ==
    LET i == NextWord(ls, w, from) IN
    IF i = 0 THEN From(s, from)
    ELSE SubSeq(s, from, i - 1) \o new \o SubWordICFrom(s, ls, w, new, i + Len(w))

\* re.sub(r"\bw\b", new, s, flags=re.IGNORECASE), w in lower case
SubWordIC(s, w, new) ==
    IF HasWord(Lower(s), w) THEN SubWordICFrom(s, Lower(s), w, new, 1) ELSE s

\* a chain of str.replace calls: pairs is <<old, new>>, ...
RECURSIVE ReplaceAll(_, _, _)
ReplaceAll(s, pairs, k) ==
    IF k > Len(pairs) THEN s
    ELSE IF Contains(s, pairs[k][1])
         THEN ReplaceAll(ReplaceFrom(s, pairs[k][1], pairs[k][2], 1), pairs, k + 1)
         ELSE ReplaceAll(s, pairs, k + 1)

\* the index after the longest run of \s that starts at index i
SkipSpaces(s, i) ==
    IF \E j \in i..Len(s) : s[j] \notin SpaceChars
    THEN CHOOSE j \in i..Len(s) : s[j] \notin SpaceChars /\ \A k \in i..(j - 1) : s[k] \in SpaceChars
    ELSE IF i > Len(s) THEN i ELSE Len(s) + 1

\* s.rstrip(cs)
RStripChars(s, cs) ==
    IF \E j \in 1..Len(s) : s[j] \notin cs
    THEN SubSeq(s, 1, CHOOSE j \in 1..Len(s) : s[j] \notin cs /\ \A k \in (j + 1)..Len(s) : s[k] \in cs)
    ELSE <<>>

\* s.lstrip(cs)
LStripChars(s, cs) ==
    IF \E j \in 1..Len(s) : s[j] \notin cs
    THEN From(s, CHOOSE j \in 1..Len(s) : s[j] \notin cs /\ \A k \in 1..(j - 1) : s[k] \in cs)
    ELSE <<>>

\* s.strip()
Strip(s) == LStripChars(RStripChars(s, SpaceChars), SpaceChars)

\* None; also the empty str, list and dict, which the code tells apart from None
\* by truth value only
None == <<>>

\* dict.get(key, default)
Get(d, key, default) == IF key \in DOMAIN d THEN d[key] ELSE default

----------------------------------------------------------------------------
(* SQLValidator (Agent/sql_validator.py)                                   *)

STRICT_OPERATIONS == << <<"S","E","L","E","C","T">> (* SELECT *) >>
MODERATE_OPERATIONS == << <<"S","E","L","E","C","T">> (* SELECT *), <<"U","P","D","A","T","E">> (* UPDATE *), <<"D","E","L","E","T","E">> (* DELETE *) >>
LENIENT_OPERATIONS == << <<"S","E","L","E","C","T">> (* SELECT *), <<"I","N","S","E","R","T">> (* INSERT *), <<"U","P","D","A","T","E">> (* UPDATE *), <<"D","E","L","E","T","E">> (* DELETE *) >>

\* the schema _get_schema reads from the banking database
SchemaTables == {
    <<"c","u","s","t","o","m","e","r","s">> (* customers *), <<"a","c","c","o","u","n","t","s">> (* accounts *), <<"t","r","a","n","s","a","c","t","i","o","n","s">> (* transactions *), <<"b","r","a","n","c","h","e","s">> (* branches *), <<"e","m","p","l","o","y","e","e","s">> (* employees *) }

SchemaColumns == {
    <<"i","d">> (* id *), <<"e","m","a","i","l">> (* email *), <<"p","h","o","n","e">> (* phone *), <<"a","d","d","r","e","s","s">> (* address *), <<"f","i","r","s","t","_","n","a","m","e">> (* first_name *), <<"l","a","s","t","_","n","a","m","e">> (* last_name *),
    <<"d","a","t","e","_","o","f","_","b","i","r","t","h">> (* date_of_birth *), <<"g","e","n","d","e","r">> (* gender *), <<"n","a","t","i","o","n","a","l","_","i","d">> (* national_id *), <<"c","r","e","a","t","e","d","_","a","t">> (* created_at *), <<"u","p","d","a","t","e","d","_","a","t">> (* updated_at *),
    <<"b","r","a","n","c","h","_","i","d">> (* branch_id *), <<"c","u","s","t","o","m","e","r","_","i","d">> (* customer_id *), <<"a","c","c","o","u","n","t","_","n","u","m","b","e","r">> (* account_number *), <<"t","y","p","e">> (* type *), <<"b","a","l","a","n","c","e">> (* balance *),
    <<"o","p","e","n","e","d","_","a","t">> (* opened_at *), <<"i","n","t","e","r","e","s","t","_","r","a","t","e">> (* interest_rate *), <<"s","t","a","t","u","s">> (* status *), <<"a","c","c","o","u","n","t","_","i","d">> (* account_id *),
    <<"t","r","a","n","s","a","c","t","i","o","n","_","d","a","t","e">> (* transaction_date *), <<"a","m","o","u","n","t">> (* amount *), <<"d","e","s","c","r","i","p","t","i","o","n">> (* description *), <<"e","m","p","l","o","y","e","e","_","i","d">> (* employee_id *), <<"n","a","m","e">> (* name *),
    <<"c","i","t","y">> (* city *), <<"s","t","a","t","e">> (* state *), <<"z","i","p","_","c","o","d","e">> (* zip_code *), <<"m","a","n","a","g","e","r","_","i","d">> (* manager_id *), <<"p","o","s","i","t","i","o","n">> (* position *), <<"h","i","r","e","_","d","a","t","e">> (* hire_date *),
    <<"s","a","l","a","r","y">> (* salary *) }

\* Fix 1: date column should be transaction_date
Fix1Trigger(sql) ==
    \/ Contains(Lower(sql), <<"n","o"," ","s","u","c","h"," ","c","o","l","u","m","n",":"," ","d","a","t","e">> (* no such column: date *))
    \/ Contains(sql, <<" ","d","a","t","e"," ">> (*  date  *))
    \/ Contains(sql, <<" ","d","a","t","e",",">> (*  date, *))

Fix1Replacements == <<
    << <<"O","R","D","E","R"," ","B","Y"," ","d","a","t","e">> (* ORDER BY date *), <<"O","R","D","E","R"," ","B","Y"," ","t","r","a","n","s","a","c","t","i","o","n","_","d","a","t","e">> (* ORDER BY transaction_date *) >>,
    << <<"S","E","L","E","C","T"," ","d","a","t","e">> (* SELECT date *), <<"S","E","L","E","C","T"," ","t","r","a","n","s","a","c","t","i","o","n","_","d","a","t","e">> (* SELECT transaction_date *) >>,
    << <<"S","E","L","E","C","T"," ","*",","," ","d","a","t","e">> (* SELECT *, date *), <<"S","E","L","E","C","T"," ","*",","," ","t","r","a","n","s","a","c","t","i","o","n","_","d","a","t","e">> (* SELECT *, transaction_date *) >>,
    << <<"S","E","L","E","C","T"," ","d","a","t","e",",">> (* SELECT date, *), <<"S","E","L","E","C","T"," ","t","r","a","n","s","a","c","t","i","o","n","_","d","a","t","e",",">> (* SELECT transaction_date, *) >>,
    << <<","," ","d","a","t","e">> (* , date *), <<","," ","t","r","a","n","s","a","c","t","i","o","n","_","d","a","t","e">> (* , transaction_date *) >>,
    << <<","," ","d","a","t","e",",">> (* , date, *), <<","," ","t","r","a","n","s","a","c","t","i","o","n","_","d","a","t","e",",">> (* , transaction_date, *) >>,
    << <<","," ","d","a","t","e"," ">> (* , date  *), <<","," ","t","r","a","n","s","a","c","t","i","o","n","_","d","a","t","e"," ">> (* , transaction_date  *) >>,
    << <<" ","d","a","t","e"," ">> (*  date  *), <<" ","t","r","a","n","s","a","c","t","i","o","n","_","d","a","t","e"," ">> (*  transaction_date  *) >>,
    << <<" ","d","a","t","e",",">> (*  date, *), <<" ","t","r","a","n","s","a","c","t","i","o","n","_","d","a","t","e",",">> (*  transaction_date, *) >>,
    << <<" ","d","a","t","e",")">> (*  date) *), <<" ","t","r","a","n","s","a","c","t","i","o","n","_","d","a","t","e",")">> (*  transaction_date) *) >>,
    << <<"(","d","a","t","e",")">> (* (date) *), <<"(","t","r","a","n","s","a","c","t","i","o","n","_","d","a","t","e",")">> (* (transaction_date) *) >>,
    << <<".","d","a","t","e">> (* .date *), <<".","t","r","a","n","s","a","c","t","i","o","n","_","d","a","t","e">> (* .transaction_date *) >>,
    << <<"d","a","t","e"," ","F","R","O","M">> (* date FROM *), <<"t","r","a","n","s","a","c","t","i","o","n","_","d","a","t","e"," ","F","R","O","M">> (* transaction_date FROM *) >>,
    << <<"d","a","t","e"," ","W","H","E","R","E">> (* date WHERE *), <<"t","r","a","n","s","a","c","t","i","o","n","_","d","a","t","e"," ","W","H","E","R","E">> (* transaction_date WHERE *) >>,
    << <<"d","a","t","e"," ","O","R","D","E","R">> (* date ORDER *), <<"t","r","a","n","s","a","c","t","i","o","n","_","d","a","t","e"," ","O","R","D","E","R">> (* transaction_date ORDER *) >>,
    << <<"d","a","t","e"," ","L","I","M","I","T">> (* date LIMIT *), <<"t","r","a","n","s","a","c","t","i","o","n","_","d","a","t","e"," ","L","I","M","I","T">> (* transaction_date LIMIT *) >>,
    \* But preserve SQL date functions
    << <<"t","r","a","n","s","a","c","t","i","o","n","_","d","a","t","e","(","'","n","o","w","'">> (* transaction_date('now' *), <<"d","a","t","e","(","'","n","o","w","'">> (* date('now' *) >>,
    << <<"t","r","a","n","s","a","c","t","i","o","n","_","d","a","t","e","(">> (* transaction_date( *), <<"d","a","t","e","(">> (* date( *) >> >>

Fix1(sql) == IF Fix1Trigger(sql) THEN ReplaceAll(sql, Fix1Replacements, 1) ELSE sql

\* Fix 2: name column should be first_name and last_name
Fix2Trigger(sql) ==
    \/ Contains(Lower(sql), <<"n","o"," ","s","u","c","h"," ","c","o","l","u","m","n",":"," ","n","a","m","e">> (* no such column: name *))
    \/ Contains(sql, <<"c",".","n","a","m","e">> (* c.name *))
    \/ Contains(sql, <<"c","u","s","t","o","m","e","r","s",".","n","a","m","e">> (* customers.name *))

Fix2Replacements == <<
    << <<"c",".","n","a","m","e">> (* c.name *), <<"c",".","f","i","r","s","t","_","n","a","m","e"," ","|","|"," ","'"," ","'"," ","|","|"," ","c",".","l","a","s","t","_","n","a","m","e">> (* c.first_name || ' ' || c.last_name *) >>,
    << <<"c","u","s","t","o","m","e","r","s",".","n","a","m","e">> (* customers.name *), <<"c","u","s","t","o","m","e","r","s",".","f","i","r","s","t","_","n","a","m","e"," ","|","|"," ","'"," ","'"," ","|","|"," ","c","u","s","t","o","m","e","r","s",".","l","a","s","t","_","n","a","m","e">> (* customers.first_name || ' ' || customers.last_name *) >>,
    << <<"S","E","L","E","C","T"," ","n","a","m","e">> (* SELECT name *), <<"S","E","L","E","C","T"," ","f","i","r","s","t","_","n","a","m","e"," ","|","|"," ","'"," ","'"," ","|","|"," ","l","a","s","t","_","n","a","m","e"," ","A","S"," ","n","a","m","e">> (* SELECT first_name || ' ' || last_name AS name *) >>,
    << <<"S","E","L","E","C","T"," ","*",","," ","n","a","m","e">> (* SELECT *, name *), <<"S","E","L","E","C","T"," ","*",","," ","f","i","r","s","t","_","n","a","m","e"," ","|","|"," ","'"," ","'"," ","|","|"," ","l","a","s","t","_","n","a","m","e"," ","A","S"," ","n","a","m","e">> (* SELECT *, first_name || ' ' || last_name AS name *) >>,
    << <<","," ","n","a","m","e">> (* , name *), <<","," ","f","i","r","s","t","_","n","a","m","e"," ","|","|"," ","'"," ","'"," ","|","|"," ","l","a","s","t","_","n","a","m","e"," ","A","S"," ","n","a","m","e">> (* , first_name || ' ' || last_name AS name *) >>,
    << <<" ","n","a","m","e"," ">> (*  name  *), <<" ","f","i","r","s","t","_","n","a","m","e"," ","|","|"," ","'"," ","'"," ","|","|"," ","l","a","s","t","_","n","a","m","e"," ">> (*  first_name || ' ' || last_name  *) >>,
    << <<" ","n","a","m","e",",">> (*  name, *), <<" ","f","i","r","s","t","_","n","a","m","e"," ","|","|"," ","'"," ","'"," ","|","|"," ","l","a","s","t","_","n","a","m","e"," ","A","S"," ","n","a","m","e",",">> (*  first_name || ' ' || last_name AS name, *) >>,
    << <<"O","R","D","E","R"," ","B","Y"," ","n","a","m","e">> (* ORDER BY name *), <<"O","R","D","E","R"," ","B","Y"," ","f","i","r","s","t","_","n","a","m","e"," ","|","|"," ","'"," ","'"," ","|","|"," ","l","a","s","t","_","n","a","m","e">> (* ORDER BY first_name || ' ' || last_name *) >>,
    << <<"n","a","m","e"," ","L","I","K","E">> (* name LIKE *), <<"f","i","r","s","t","_","n","a","m","e"," ","|","|"," ","'"," ","'"," ","|","|"," ","l","a","s","t","_","n","a","m","e"," ","L","I","K","E">> (* first_name || ' ' || last_name LIKE *) >>,
    << <<"W","H","E","R","E"," ","n","a","m","e">> (* WHERE name *), <<"W","H","E","R","E"," ","f","i","r","s","t","_","n","a","m","e"," ","|","|"," ","'"," ","'"," ","|","|"," ","l","a","s","t","_","n","a","m","e">> (* WHERE first_name || ' ' || last_name *) >> >>

Fix2(sql) == IF Fix2Trigger(sql) THEN ReplaceAll(sql, Fix2Replacements, 1) ELSE sql

\* Fix 3: ambiguous column references (dict order)
ambiguous_fixes == <<
    << <<"S","E","L","E","C","T"," ","t","y","p","e">> (* SELECT type *), <<"S","E","L","E","C","T"," ","t",".","t","y","p","e">> (* SELECT t.type *) >>,
    << <<","," ","t","y","p","e",",">> (* , type, *), <<","," ","t",".","t","y","p","e",",">> (* , t.type, *) >>,
    << <<","," ","t","y","p","e"," ">> (* , type  *), <<","," ","t",".","t","y","p","e"," ">> (* , t.type  *) >>,
    << <<"W","H","E","R","E"," ","t","y","p","e">> (* WHERE type *), <<"W","H","E","R","E"," ","t",".","t","y","p","e">> (* WHERE t.type *) >>,
    << <<"O","R","D","E","R"," ","B","Y"," ","t","y","p","e">> (* ORDER BY type *), <<"O","R","D","E","R"," ","B","Y"," ","t",".","t","y","p","e">> (* ORDER BY t.type *) >>,
    << <<"S","E","L","E","C","T"," ","s","t","a","t","u","s">> (* SELECT status *), <<"S","E","L","E","C","T"," ","t",".","s","t","a","t","u","s">> (* SELECT t.status *) >>,
    << <<","," ","s","t","a","t","u","s",",">> (* , status, *), <<","," ","t",".","s","t","a","t","u","s",",">> (* , t.status, *) >>,
    << <<","," ","s","t","a","t","u","s"," ">> (* , status  *), <<","," ","t",".","s","t","a","t","u","s"," ">> (* , t.status  *) >>,
    << <<"W","H","E","R","E"," ","s","t","a","t","u","s">> (* WHERE status *), <<"W","H","E","R","E"," ","t",".","s","t","a","t","u","s">> (* WHERE t.status *) >>,
    << <<"O","R","D","E","R"," ","B","Y"," ","s","t","a","t","u","s">> (* ORDER BY status *), <<"O","R","D","E","R"," ","B","Y"," ","t",".","s","t","a","t","u","s">> (* ORDER BY t.status *) >>,
    << <<"S","E","L","E","C","T"," ","i","d">> (* SELECT id *), <<"S","E","L","E","C","T"," ","t",".","i","d">> (* SELECT t.id *) >> >>

QualifiedForms == { <<"t",".","t","y","p","e">> (* t.type *), <<"t",".","s","t","a","t","u","s">> (* t.status *), <<"t",".","i","d">> (* t.id *), <<"a",".","t","y","p","e">> (* a.type *), <<"a",".","s","t","a","t","u","s">> (* a.status *), <<"c",".","i","d">> (* c.id *) }

\* pattern.replace('SELECT ', '').replace('WHERE ', '').replace('ORDER BY ', '')
\*        .replace(', ', '').replace(' ', '')
StrippedPattern(pattern) ==
    ReplaceAll(pattern,
               << << <<"S","E","L","E","C","T"," ">> (* SELECT  *), <<>> >>, << <<"W","H","E","R","E"," ">> (* WHERE  *), <<>> >>, << <<"O","R","D","E","R"," ","B","Y"," ">> (* ORDER BY  *), <<>> >>,
                  << <<","," ">> (* ,  *), <<>> >>, << <<" ">> (*   *), <<>> >> >>, 1)

\* the part of the loop's condition that reads the pattern alone
PatternEligible == [k \in 1..Len(ambiguous_fixes) |->
                        StrippedPattern(ambiguous_fixes[k][1]) \notin QualifiedForms]

Fix3Gate(sql) == Contains(Upper(sql), <<" ","J","O","I","N"," ">> (*  JOIN  *)) \/ Contains(Upper(sql), <<" ","F","R","O","M"," ">> (*  FROM  *))

RECURSIVE Fix3Loop(_, _)
Fix3Loop(sql, k) ==
    IF k > Len(ambiguous_fixes) THEN sql
    ELSE IF Contains(sql, ambiguous_fixes[k][1]) /\ PatternEligible[k]
         THEN Fix3Loop(Replace(sql, ambiguous_fixes[k][1], ambiguous_fixes[k][2]), k + 1)
         ELSE Fix3Loop(sql, k + 1)

Fix3(sql) == IF Fix3Gate(sql) THEN Fix3Loop(sql, 1) ELSE sql

\* Fix 4: table alias issues (dict order)
table_fixes == <<
    << <<"c","u","s","t","o","m","e","r",".","n","a","m","e">> (* customer.name *), <<"c","u","s","t","o","m","e","r",".","f","i","r","s","t","_","n","a","m","e"," ","|","|"," ","'"," ","'"," ","|","|"," ","c","u","s","t","o","m","e","r",".","l","a","s","t","_","n","a","m","e">> (* customer.first_name || ' ' || customer.last_name *) >>,
    << <<"c","u","s","t","o","m","e","r",".","i","d">> (* customer.id *), <<"c",".","i","d">> (* c.id *) >>,
    << <<"c","u","s","t","o","m","e","r",".","e","m","a","i","l">> (* customer.email *), <<"c",".","e","m","a","i","l">> (* c.email *) >>,
    << <<"a","c","c","o","u","n","t",".","i","d">> (* account.id *), <<"a",".","i","d">> (* a.id *) >>,
    << <<"a","c","c","o","u","n","t",".","b","a","l","a","n","c","e">> (* account.balance *), <<"a",".","b","a","l","a","n","c","e">> (* a.balance *) >>,
    << <<"a","c","c","o","u","n","t",".","t","y","p","e">> (* account.type *), <<"a",".","t","y","p","e">> (* a.type *) >>,
    << <<"t","r","a","n","s","a","c","t","i","o","n",".","i","d">> (* transaction.id *), <<"t",".","i","d">> (* t.id *) >>,
    << <<"t","r","a","n","s","a","c","t","i","o","n",".","a","m","o","u","n","t">> (* transaction.amount *), <<"t",".","a","m","o","u","n","t">> (* t.amount *) >>,
    << <<"t","r","a","n","s","a","c","t","i","o","n",".","t","y","p","e">> (* transaction.type *), <<"t",".","t","y","p","e">> (* t.type *) >>,
    << <<"t","r","a","n","s","a","c","t","i","o","n",".","d","a","t","e">> (* transaction.date *), <<"t",".","t","r","a","n","s","a","c","t","i","o","n","_","d","a","t","e">> (* t.transaction_date *) >>,
    << <<"e","m","p","l","o","y","e","e",".","n","a","m","e">> (* employee.name *), <<"e",".","n","a","m","e">> (* e.name *) >>,
    << <<"e","m","p","l","o","y","e","e",".","i","d">> (* employee.id *), <<"e",".","i","d">> (* e.id *) >>,
    << <<"b","r","a","n","c","h",".","n","a","m","e">> (* branch.name *), <<"b",".","n","a","m","e">> (* b.name *) >>,
    << <<"b","r","a","n","c","h",".","i","d">> (* branch.id *), <<"b",".","i","d">> (* b.id *) >> >>

Fix4(sql) == ReplaceAll(sql, table_fixes, 1)

\* Fix 5: typos (dict order), each a case-insensitive re.sub
typo_fixes == <<
    << <<"c","o","s","t","u","m","e","r">> (* costumer *), <<"c","u","s","t","o","m","e","r">> (* customer *) >>,
    << <<"c","o","s","t","u","m","e","r","s">> (* costumers *), <<"c","u","s","t","o","m","e","r","s">> (* customers *) >>,
    << <<"t","r","a","s","a","c","t","i","o","n">> (* trasaction *), <<"t","r","a","n","s","a","c","t","i","o","n">> (* transaction *) >>,
    << <<"t","r","a","s","a","c","t","i","o","n","s">> (* trasactions *), <<"t","r","a","n","s","a","c","t","i","o","n","s">> (* transactions *) >>,
    << <<"a","c","c","o","u","t">> (* accout *), <<"a","c","c","o","u","n","t">> (* account *) >>,
    << <<"a","c","o","u","n","t","s">> (* acounts *), <<"a","c","c","o","u","n","t","s">> (* accounts *) >>,
    << <<"e","m","p","l","o","y","e">> (* employe *), <<"e","m","p","l","o","y","e","e">> (* employee *) >>,
    << <<"e","m","p","l","o","y","e","s">> (* employes *), <<"e","m","p","l","o","y","e","e","s">> (* employees *) >>,
    << <<"e","m","p","l","o","y","e","e","e","s">> (* employeees *), <<"e","m","p","l","o","y","e","e","s">> (* employees *) >> >>

RECURSIVE Fix5Loop(_, _)
Fix5Loop(sql, k) ==
    IF k > Len(typo_fixes) THEN sql
    ELSE IF Contains(Lower(sql), typo_fixes[k][1])
         THEN LET new_sql == SubICFrom(sql, Lower(sql), typo_fixes[k][1], typo_fixes[k][2], 1)
              IN  IF new_sql # sql THEN Fix5Loop(new_sql, k + 1) ELSE Fix5Loop(sql, k + 1)
         ELSE Fix5Loop(sql, k + 1)

Fix5(sql) == Fix5Loop(sql, 1)

\* the fix steps at the start of validate_query
ApplyFixes(sql) == Fix5(Fix4(Fix3(Fix2(Fix1(sql)))))

\* a whitelist that ignores the level
allowed_ops_any_level(level) == LENIENT_OPERATIONS

allowed_ops(level) ==
    IF level = <<"s","t","r","i","c","t">> (* strict *) THEN STRICT_OPERATIONS
    ELSE IF level = <<"m","o","d","e","r","a","t","e">> (* moderate *) THEN MODERATE_OPERATIONS
    ELSE LENIENT_OPERATIONS

OperationAllowed(sql_upper, level) ==
    \E k \in 1..Len(allowed_ops(level)) : StartsWith(sql_upper, allowed_ops(level)[k])

\* a test for DROP and TRUNCATE only
DestructiveWord_without_alter(sql_upper) ==
    \E w \in { <<"D","R","O","P">> (* DROP *), <<"T","R","U","N","C","A","T","E">> (* TRUNCATE *) } : HasWord(sql_upper, w)

\* re.search(r"\b(DROP|TRUNCATE|ALTER)\b", sql_upper)
DestructiveWord(sql_upper) ==
    \E w \in { <<"D","R","O","P">> (* DROP *), <<"T","R","U","N","C","A","T","E">> (* TRUNCATE *), <<"A","L","T","E","R">> (* ALTER *) } : HasWord(sql_upper, w)

\* re.search(r"\b(DELETE|UPDATE)\b", sql_upper) and "WHERE" not in sql_upper
MutationWithoutWhere(sql_upper) ==
    /\ \E w \in { <<"D","E","L","E","T","E">> (* DELETE *), <<"U","P","D","A","T","E">> (* UPDATE *) } : HasWord(sql_upper, w)
    /\ ~Contains(sql_upper, <<"W","H","E","R","E">> (* WHERE *))

\* a test that never finds a second statement
MultipleStatements_never(sql) == FALSE

\* re.search(r";\s*(DROP|DELETE|UPDATE|INSERT|CREATE|ALTER)", sql, re.IGNORECASE)
MultipleStatements(sql) ==
    LET u == Upper(sql) IN
    \E i \in 1..Len(u) :
        /\ u[i] = ";"
        /\ \E w \in { <<"D","R","O","P">> (* DROP *), <<"D","E","L","E","T","E">> (* DELETE *), <<"U","P","D","A","T","E">> (* UPDATE *), <<"I","N","S","E","R","T">> (* INSERT *), <<"C","R","E","A","T","E">> (* CREATE *), <<"A","L","T","E","R">> (* ALTER *) } :
               Match(u, SkipSpaces(u, i + 1), w)

\* the last index of the line that holds index i ('.' matches no newline)
LineEnd(s, i) ==
    IF \E j \in i..Len(s) : s[j] = "\n"
    THEN (CHOOSE j \in i..Len(s) : s[j] = "\n" /\ \A k \in i..(j - 1) : s[k] # "\n") - 1
    ELSE Len(s)

\* re.search(r"--.*\b(OR|AND)\b.*=", sql, re.IGNORECASE)
CommentInjection(sql) ==
    LET u == Upper(sql) IN
    \E i \in 1..(Len(u) - 1) :
        /\ Match(u, i, <<"-","-">> (* -- *))
        /\ \E w \in { <<"O","R">> (* OR *), <<"A","N","D">> (* AND *) } :
             \E j \in (i + 2)..LineEnd(u, i) :
                /\ WordAt(u, j, w)
                /\ j + Len(w) - 1 <= LineEnd(u, i)
                /\ \E e \in (j + Len(w))..LineEnd(u, i) : u[e] = "="

\* re.search(r"\bUNION\s+(ALL\s+)?SELECT\b", sql, re.IGNORECASE)
SelectWordAt(u, a) == Match(u, a, <<"S","E","L","E","C","T">> (* SELECT *)) /\ BoundaryAfter(u, a + 5)

UnionSelect(sql) ==
    LET u == Upper(sql) IN
    \E i \in 1..Len(u) :
        /\ Match(u, i, <<"U","N","I","O","N">> (* UNION *))
        /\ BoundaryBefore(u, i)
        /\ LET a == SkipSpaces(u, i + 5) IN
           /\ a > i + 5
           /\ \/ SelectWordAt(u, a)
              \/ /\ Match(u, a, <<"A","L","L">> (* ALL *))
                 /\ SkipSpaces(u, a + 3) > a + 3
                 /\ SelectWordAt(u, SkipSpaces(u, a + 3))

\* a constructor that keeps the level name as it is given
StoredLevel_as_given(name) == name

\* SQLValidator.__init__: self.validation_level = validation_level.lower()
StoredLevel(name) == Lower(name)

\* check_safety: the first failing test decides the message
check_safety(sql, level) ==
    LET sql_upper == Upper(sql) IN
    IF ~OperationAllowed(sql_upper, level)
    THEN [safe |-> FALSE, message |-> <<"O","p","e","r","a","t","i","o","n"," ","n","o","t"," ","a","l","l","o","w","e","d"," ","i","n"," ">> (* Operation not allowed in  *) \o level \o <<" ","m","o","d","e",".">> (*  mode. *)]
    ELSE IF DestructiveWord(sql_upper)
    THEN [safe |-> FALSE, message |-> <<"D","a","n","g","e","r","o","u","s"," ","o","p","e","r","a","t","i","o","n"," ","d","e","t","e","c","t","e","d"," ","(","D","R","O","P","/","T","R","U","N","C","A","T","E","/","A","L","T","E","R"," ","n","o","t"," ","a","l","l","o","w","e","d",")",".">> (* Dangerous operation detected (DROP/TRUNCATE/ALTER not allowed). *)]
    ELSE IF MutationWithoutWhere(sql_upper)
    THEN [safe |-> FALSE, message |-> <<"D","E","L","E","T","E","/","U","P","D","A","T","E"," ","m","u","s","t"," ","h","a","v","e"," ","a"," ","W","H","E","R","E"," ","c","l","a","u","s","e",".">> (* DELETE/UPDATE must have a WHERE clause. *)]
    ELSE IF MultipleStatements(sql)
    THEN [safe |-> FALSE, message |-> <<"P","o","s","s","i","b","l","e"," ","S","Q","L"," ","i","n","j","e","c","t","i","o","n"," ","a","t","t","e","m","p","t"," ","d","e","t","e","c","t","e","d"," ","(","m","u","l","t","i","p","l","e"," ","s","t","a","t","e","m","e","n","t","s",")",".">> (* Possible SQL injection attempt detected (multiple statements). *)]
    ELSE IF CommentInjection(sql)
    THEN [safe |-> FALSE, message |-> <<"P","o","s","s","i","b","l","e"," ","S","Q","L"," ","i","n","j","e","c","t","i","o","n"," ","a","t","t","e","m","p","t"," ","d","e","t","e","c","t","e","d"," ","(","c","o","m","m","e","n","t"," ","i","n","j","e","c","t","i","o","n",")",".">> (* Possible SQL injection attempt detected (comment injection). *)]
    ELSE IF UnionSelect(sql) /\ ~StartsWith(sql_upper, <<"S","E","L","E","C","T">> (* SELECT *))
    THEN [safe |-> FALSE, message |-> <<"P","o","s","s","i","b","l","e"," ","S","Q","L"," ","i","n","j","e","c","t","i","o","n"," ","a","t","t","e","m","p","t"," ","d","e","t","e","c","t","e","d"," ","(","U","N","I","O","N"," ","i","n","j","e","c","t","i","o","n",")",".">> (* Possible SQL injection attempt detected (UNION injection). *)]
    ELSE [safe |-> TRUE, message |-> <<"S","a","f","e"," ","q","u","e","r","y",".">> (* Safe query. *)]

\* what the EXPLAIN probe of parse_sql can answer: it passes (None), or sqlite
\* raises with a message
ExplainErrors == {
    <<"n","e","a","r"," ","\"","F","R","O","M","\"",":"," ","s","y","n","t","a","x"," ","e","r","r","o","r">> (* near \"FROM\": syntax error *),
    <<"n","o"," ","s","u","c","h"," ","t","a","b","l","e",":"," ","c","u","s","t","o","m","e","r">> (* no such table: customer *),
    <<"n","o"," ","s","u","c","h"," ","c","o","l","u","m","n",":"," ","d","a","t","e">> (* no such column: date *),
    <<"d","a","t","a","b","a","s","e"," ","i","s"," ","l","o","c","k","e","d">> (* database is locked *) }
ExplainOutcomes == {None} \cup ExplainErrors

suggest_correction(error_msg) ==
    IF Contains(error_msg, <<"s","y","n","t","a","x"," ","e","r","r","o","r">> (* syntax error *))
    THEN <<"C","h","e","c","k"," ","S","Q","L"," ","s","y","n","t","a","x",","," ","m","i","s","s","i","n","g"," ","k","e","y","w","o","r","d","s",","," ","o","r"," ","m","i","s","p","l","a","c","e","d"," ","c","o","m","m","a","s",".">> (* Check SQL syntax, missing keywords, or misplaced commas. *)
    ELSE IF Contains(error_msg, <<"n","o"," ","s","u","c","h"," ","t","a","b","l","e">> (* no such table *))
    THEN <<"C","h","e","c","k"," ","t","a","b","l","e"," ","n","a","m","e"," ","s","p","e","l","l","i","n","g"," ","a","n","d"," ","e","x","i","s","t","e","n","c","e",".">> (* Check table name spelling and existence. *)
    ELSE IF Contains(error_msg, <<"n","o"," ","s","u","c","h"," ","c","o","l","u","m","n">> (* no such column *))
    THEN <<"C","h","e","c","k"," ","c","o","l","u","m","n"," ","n","a","m","e"," ","s","p","e","l","l","i","n","g"," ","a","n","d"," ","e","x","i","s","t","e","n","c","e",".">> (* Check column name spelling and existence. *)
    ELSE <<"R","e","v","i","e","w"," ","S","Q","L"," ","q","u","e","r","y"," ","f","o","r"," ","e","r","r","o","r","s",".">> (* Review SQL query for errors. *)

\* parse_sql: one EXPLAIN, no retry; explain is the engine's answer
parse_sql(sql, explain) ==
    IF explain = None
    THEN [valid |-> TRUE, message |-> <<"S","Q","L"," ","s","y","n","t","a","x"," ","i","s"," ","v","a","l","i","d",".">> (* SQL syntax is valid. *)]
    ELSE [valid |-> FALSE, message |-> <<"S","Q","L"," ","s","y","n","t","a","x"," ","e","r","r","o","r",":"," ">> (* SQL syntax error:  *) \o explain,
          suggestion |-> suggest_correction(explain)]

\* re.search(r'select\s+\*', sql_lower)
SelectStar(sql_lower) ==
    \E i \in 1..Len(sql_lower) :
        /\ Match(sql_lower, i, <<"s","e","l","e","c","t">> (* select *))
        /\ SkipSpaces(sql_lower, i + 6) > i + 6
        /\ Match(sql_lower, SkipSpaces(sql_lower, i + 6), <<"*">> (* * *))

\* re.search(r'select\s+count\s*\(\s*\*\s*\)', sql_lower)
SelectCountStar(sql_lower) ==
    \E i \in 1..Len(sql_lower) :
        /\ Match(sql_lower, i, <<"s","e","l","e","c","t">> (* select *))
        /\ SkipSpaces(sql_lower, i + 6) > i + 6
        /\ LET c == SkipSpaces(sql_lower, i + 6) IN
           /\ Match(sql_lower, c, <<"c","o","u","n","t">> (* count *))
           /\ LET p == SkipSpaces(sql_lower, c + 5) IN
              /\ Match(sql_lower, p, <<"(">> (* ( *))
              /\ LET a == SkipSpaces(sql_lower, p + 1) IN
                 /\ Match(sql_lower, a, <<"*">> (* * *))
                 /\ Match(sql_lower, SkipSpaces(sql_lower, a + 1), <<")">> (* ) *))

\* re.search(r'\b(count|sum|avg|max|min)\s*\(', sql_lower)
AggregateCall(sql_lower) ==
    \E w \in { <<"c","o","u","n","t">> (* count *), <<"s","u","m">> (* sum *), <<"a","v","g">> (* avg *), <<"m","a","x">> (* max *), <<"m","i","n">> (* min *) } :
        \E i \in 1..Len(sql_lower) :
            /\ Match(sql_lower, i, w)
            /\ BoundaryBefore(sql_lower, i)
            /\ Match(sql_lower, SkipSpaces(sql_lower, i + Len(w)), <<"(">> (* ( *))

_validate_schema(sql) ==
    LET sql_lower == Lower(sql) IN
    IF ~\E table \in SchemaTables : Contains(sql_lower, table)
    THEN [valid |-> FALSE, message |-> <<"N","o"," ","v","a","l","i","d"," ","t","a","b","l","e"," ","r","e","f","e","r","e","n","c","e","d"," ","i","n"," ","q","u","e","r","y",".">> (* No valid table referenced in query. *)]
    ELSE IF SelectStar(sql_lower) \/ SelectCountStar(sql_lower)
    THEN [valid |-> TRUE, message |-> <<"S","c","h","e","m","a"," ","v","a","l","i","d","a","t","i","o","n"," ","p","a","s","s","e","d"," ","(","w","i","l","d","c","a","r","d"," ","o","r"," ","c","o","u","n","t",")",".">> (* Schema validation passed (wildcard or count). *)]
    ELSE IF \E col \in SchemaColumns : Contains(sql_lower, col)
    THEN [valid |-> TRUE, message |-> <<"S","c","h","e","m","a"," ","v","a","l","i","d","a","t","i","o","n"," ","p","a","s","s","e","d",".">> (* Schema validation passed. *)]
    ELSE IF AggregateCall(sql_lower)
    THEN [valid |-> TRUE, message |-> <<"S","c","h","e","m","a"," ","v","a","l","i","d","a","t","i","o","n"," ","p","a","s","s","e","d"," ","(","a","g","g","r","e","g","a","t","e"," ","f","u","n","c","t","i","o","n",")",".">> (* Schema validation passed (aggregate function). *)]
    ELSE [valid |-> FALSE, message |-> <<"N","o"," ","v","a","l","i","d"," ","c","o","l","u","m","n"," ","r","e","f","e","r","e","n","c","e","d"," ","i","n"," ","q","u","e","r","y",".">> (* No valid column referenced in query. *)]

\* a dict assignment that is lost
SetKey_unset(d, key, value) == d

\* d[key] = value on a dict
SetKey(d, key, value) == (key :> value) @@ d

\* validate_query: the checks it calls on the fixed text, in the order of the calls
ChecksRun(fixed, level, explain) ==
    IF ~Get(check_safety(fixed, level), "safe", TRUE) THEN << "check_safety" >>
    ELSE IF ~Get(parse_sql(fixed, explain), "valid", TRUE) THEN << "check_safety", "parse_sql" >>
    ELSE << "check_safety", "parse_sql", "_validate_schema" >>

\* a validate_query that asks the schema check before the syntax probe
ValidationResult_schema_first(fixed, level, explain) ==
    LET result == check_safety(fixed, level)
        syntax_result == parse_sql(fixed, explain)
        schema_result == _validate_schema(fixed)
    IN  IF ~Get(result, "safe", TRUE) THEN SetKey(result, "valid", FALSE)
        ELSE IF ~Get(schema_result, "valid", TRUE) THEN SetKey(schema_result, "safe", FALSE)
        ELSE IF ~Get(syntax_result, "valid", TRUE) THEN SetKey(syntax_result, "safe", FALSE)
        ELSE [safe |-> TRUE, valid |-> TRUE, message |-> <<"Q","u","e","r","y"," ","i","s"," ","v","a","l","i","d",".">> (* Query is valid. *), sql |-> fixed]

\* validate_query's return value; fixed is the text after the fix steps
ValidationResult(fixed, level, explain) ==
    LET result == check_safety(fixed, level)
        syntax_result == parse_sql(fixed, explain)
        schema_result == _validate_schema(fixed)
    IN  IF ~Get(result, "safe", TRUE) THEN SetKey(result, "valid", FALSE)
        ELSE IF ~Get(syntax_result, "valid", TRUE) THEN SetKey(syntax_result, "safe", FALSE)
        ELSE IF ~Get(schema_result, "valid", TRUE) THEN SetKey(schema_result, "safe", FALSE)
        ELSE [safe |-> TRUE, valid |-> TRUE, message |-> <<"Q","u","e","r","y"," ","i","s"," ","v","a","l","i","d",".">> (* Query is valid. *), sql |-> fixed]

\* validate_query(sql)
validate_query(sql, level, explain) == ValidationResult(ApplyFixes(sql), level, explain)

\* a log that keeps the rejected attempts only
_log_attempt_rejections_only(log, sql, result) ==
    IF result.safe THEN log ELSE Append(log, [query |-> sql, result |-> result])

\* _log_attempt: validation_log.append(log_entry)
_log_attempt(log, sql, result) == Append(log, [query |-> sql, result |-> result])

----------------------------------------------------------------------------
(* GeminiAgent (Agent/gemini_agent.py)                                     *)

\* the index after the word that starts at index i
WordEnd(s, i) ==
    IF \E j \in i..Len(s) : s[j] \in SpaceChars
    THEN CHOOSE j \in i..Len(s) : s[j] \in SpaceChars /\ \A k \in i..(j - 1) : s[k] \notin SpaceChars
    ELSE Len(s) + 1

\* the words of s from index i on, joined by single spaces
RECURSIVE JoinWords(_, _)
JoinWords(s, i) ==
    LET b == SkipSpaces(s, i) IN
    IF b > Len(s) THEN <<>>
    ELSE LET e == WordEnd(s, b)
             rest == JoinWords(s, e)
         IN  IF rest = <<>> THEN SubSeq(s, b, e - 1)
             ELSE SubSeq(s, b, e - 1) \o <<" ">> \o rest

\* ' '.join(s.split()): runs of whitespace become one space, none at the ends
NormalizeSpaces(s) == JoinWords(s, 1)

\* len(s.split())
WordCount(s) ==
    Cardinality({i \in 1..Len(s) : s[i] \notin SpaceChars /\ (i = 1 \/ s[i - 1] \in SpaceChars)})

\* s from index start up to the next occurrence of sep (or the end)
Between(s, start, sep) ==
    LET j == NextMatch(s, sep, start) IN
    IF j = 0 THEN From(s, start) ELSE SubSeq(s, start, j - 1)

\* s.split('\n')
RECURSIVE SplitLines(_, _)
SplitLines(s, from) ==
    LET j == NextMatch(s, <<"\n">>, from) IN
    IF j = 0 THEN << From(s, from) >>
    ELSE << SubSeq(s, from, j - 1) >> \o SplitLines(s, j + 1)

\* ' '.join(lines)
RECURSIVE JoinSpace(_, _)
JoinSpace(lines, k) ==
    IF k > Len(lines) THEN <<>>
    ELSE IF k = Len(lines) THEN lines[k]
    ELSE lines[k] \o <<" ">> \o JoinSpace(lines, k + 1)

\* _simple_ambiguity_check: the dict, listed in the order of priority_terms
ambiguity_patterns == <<
    [term |-> <<"r","e","c","e","n","t">> (* recent *),
     questions |-> << <<"H","o","w"," ","r","e","c","e","n","t","?"," ","(","e",".","g",".",","," ","'","l","a","s","t"," ","7"," ","d","a","y","s","'",","," ","'","l","a","s","t"," ","m","o","n","t","h","'",","," ","'","t","h","i","s"," ","y","e","a","r","'",")">> (* How recent? (e.g., 'last 7 days', 'last month', 'this year') *),
                      <<"D","o"," ","y","o","u"," ","w","a","n","t"," ","t","h","e"," ","m","o","s","t"," ","r","e","c","e","n","t"," ","i","t","e","m","s"," ","f","i","r","s","t","?">> (* Do you want the most recent items first? *) >>,
     explanation |-> <<"I"," ","n","e","e","d"," ","t","o"," ","k","n","o","w"," ","w","h","a","t"," ","t","i","m","e"," ","p","e","r","i","o","d"," ","y","o","u"," ","c","o","n","s","i","d","e","r"," ","'","r","e","c","e","n","t","'",".">> (* I need to know what time period you consider 'recent'. *)],
    [term |-> <<"o","l","d">> (* old *),
     questions |-> << <<"H","o","w"," ","f","a","r"," ","b","a","c","k"," ","s","h","o","u","l","d"," ","I"," ","l","o","o","k","?"," ","(","e",".","g",".",","," ","'","6"," ","m","o","n","t","h","s"," ","a","g","o","'",","," ","'","l","a","s","t"," ","y","e","a","r","'",","," ","'","o","l","d","e","r"," ","t","h","a","n"," ","2"," ","y","e","a","r","s","'",")">> (* How far back should I look? (e.g., '6 months ago', 'last year', 'older than 2 years') *),
                      <<"S","h","o","u","l","d"," ","I"," ","i","n","c","l","u","d","e"," ","c","l","o","s","e","d","/","i","n","a","c","t","i","v","e"," ","r","e","c","o","r","d","s","?">> (* Should I include closed/inactive records? *) >>,
     explanation |-> <<"P","l","e","a","s","e"," ","s","p","e","c","i","f","y"," ","w","h","a","t"," ","t","i","m","e"," ","p","e","r","i","o","d"," ","y","o","u"," ","c","o","n","s","i","d","e","r"," ","'","o","l","d","'",".">> (* Please specify what time period you consider 'old'. *)],
    [term |-> <<"l","a","r","g","e">> (* large *),
     questions |-> << <<"W","h","a","t"," ","a","m","o","u","n","t"," ","w","o","u","l","d"," ","y","o","u"," ","c","o","n","s","i","d","e","r"," ","l","a","r","g","e","?"," ","(","e",".","g",".",","," ","'","o","v","e","r"," ","$","1",",","0","0","0","'",","," ","'","m","o","r","e"," ","t","h","a","n"," ","$","1","0",",","0","0","0","'",")">> (* What amount would you consider large? (e.g., 'over $1,000', 'more than $10,000') *),
                      <<"A","r","e"," ","y","o","u"," ","l","o","o","k","i","n","g"," ","a","t"," ","i","n","d","i","v","i","d","u","a","l"," ","t","r","a","n","s","a","c","t","i","o","n","s"," ","o","r"," ","t","o","t","a","l"," ","a","m","o","u","n","t","s","?">> (* Are you looking at individual transactions or total amounts? *) >>,
     explanation |-> <<"I"," ","n","e","e","d"," ","t","o"," ","k","n","o","w"," ","w","h","a","t"," ","d","o","l","l","a","r"," ","a","m","o","u","n","t"," ","y","o","u"," ","c","o","n","s","i","d","e","r"," ","'","l","a","r","g","e","'",".">> (* I need to know what dollar amount you consider 'large'. *)],
    [term |-> <<"s","m","a","l","l">> (* small *),
     questions |-> << <<"W","h","a","t","'","s"," ","y","o","u","r"," ","t","h","r","e","s","h","o","l","d"," ","f","o","r"," ","s","m","a","l","l"," ","a","m","o","u","n","t","s","?"," ","(","e",".","g",".",","," ","'","u","n","d","e","r"," ","$","1","0","0","'",","," ","'","l","e","s","s"," ","t","h","a","n"," ","$","5","0","0","'",")">> (* What's your threshold for small amounts? (e.g., 'under $100', 'less than $500') *) >>,
     explanation |-> <<"P","l","e","a","s","e"," ","s","p","e","c","i","f","y"," ","w","h","a","t"," ","y","o","u"," ","c","o","n","s","i","d","e","r"," ","a"," ","'","s","m","a","l","l","'"," ","a","m","o","u","n","t",".">> (* Please specify what you consider a 'small' amount. *)],
    [term |-> <<"h","i","g","h">> (* high *),
     questions |-> << <<"W","h","a","t"," ","r","a","n","g","e"," ","d","o"," ","y","o","u"," ","c","o","n","s","i","d","e","r"," ","h","i","g","h","?"," ","(","e",".","g",".",","," ","'","o","v","e","r"," ","$","5","0",",","0","0","0","'",","," ","'","m","o","r","e"," ","t","h","a","n"," ","$","1","0","0",",","0","0","0","'",")">> (* What range do you consider high? (e.g., 'over $50,000', 'more than $100,000') *) >>,
     explanation |-> <<"P","l","e","a","s","e"," ","c","l","a","r","i","f","y"," ","w","h","a","t"," ","t","h","r","e","s","h","o","l","d"," ","y","o","u"," ","c","o","n","s","i","d","e","r"," ","'","h","i","g","h","'",".">> (* Please clarify what threshold you consider 'high'. *)],
    [term |-> <<"l","o","w">> (* low *),
     questions |-> << <<"W","h","a","t"," ","r","a","n","g","e"," ","d","o"," ","y","o","u"," ","c","o","n","s","i","d","e","r"," ","l","o","w","?"," ","(","e",".","g",".",","," ","'","u","n","d","e","r"," ","$","1",",","0","0","0","'",","," ","'","l","e","s","s"," ","t","h","a","n"," ","$","5",",","0","0","0","'",")">> (* What range do you consider low? (e.g., 'under $1,000', 'less than $5,000') *) >>,
     explanation |-> <<"P","l","e","a","s","e"," ","s","p","e","c","i","f","y"," ","w","h","a","t"," ","y","o","u"," ","c","o","n","s","i","d","e","r"," ","'","l","o","w","'"," ","v","a","l","u","e","s",".">> (* Please specify what you consider 'low' values. *)],
    [term |-> <<"m","y">> (* my *),
     questions |-> << <<"W","h","i","c","h"," ","a","c","c","o","u","n","t","?"," ","(","e",".","g",".",","," ","'","c","h","e","c","k","i","n","g","'",","," ","'","s","a","v","i","n","g","s","'",","," ","'","a","l","l"," ","a","c","c","o","u","n","t","s","'",")">> (* Which account? (e.g., 'checking', 'savings', 'all accounts') *) >>,
     explanation |-> <<"P","l","e","a","s","e"," ","s","p","e","c","i","f","y"," ","w","h","i","c","h"," ","o","f"," ","y","o","u","r"," ","a","c","c","o","u","n","t","s"," ","y","o","u","'","r","e"," ","a","s","k","i","n","g"," ","a","b","o","u","t",".">> (* Please specify which of your accounts you're asking about. *)],
    [term |-> <<"j","o","h","n">> (* john *),
     questions |-> << <<"W","h","i","c","h"," ","J","o","h","n","?"," ","(","P","l","e","a","s","e"," ","p","r","o","v","i","d","e"," ","l","a","s","t"," ","n","a","m","e"," ","o","r"," ","c","u","s","t","o","m","e","r"," ","I","D",")">> (* Which John? (Please provide last name or customer ID) *),
                      <<"I","s"," ","t","h","i","s"," ","f","i","r","s","t"," ","n","a","m","e",","," ","l","a","s","t"," ","n","a","m","e",","," ","o","r"," ","p","a","r","t"," ","o","f"," ","t","h","e"," ","f","u","l","l"," ","n","a","m","e","?">> (* Is this first name, last name, or part of the full name? *) >>,
     explanation |-> <<"T","h","e","r","e"," ","m","a","y"," ","b","e"," ","m","u","l","t","i","p","l","e"," ","c","u","s","t","o","m","e","r","s"," ","n","a","m","e","d"," ","J","o","h","n"," ","-"," ","I"," ","n","e","e","d"," ","m","o","r","e"," ","s","p","e","c","i","f","i","c"," ","i","d","e","n","t","i","f","i","c","a","t","i","o","n",".">> (* There may be multiple customers named John - I need more specific identification. *)],
    [term |-> <<"s","m","i","t","h">> (* smith *),
     questions |-> << <<"W","h","i","c","h"," ","S","m","i","t","h","?"," ","(","P","l","e","a","s","e"," ","p","r","o","v","i","d","e"," ","f","i","r","s","t"," ","n","a","m","e"," ","o","r"," ","c","u","s","t","o","m","e","r"," ","I","D",")">> (* Which Smith? (Please provide first name or customer ID) *) >>,
     explanation |-> <<"S","m","i","t","h"," ","i","s"," ","a"," ","c","o","m","m","o","n"," ","n","a","m","e"," ","-"," ","p","l","e","a","s","e"," ","p","r","o","v","i","d","e"," ","m","o","r","e"," ","d","e","t","a","i","l","s"," ","f","o","r"," ","i","d","e","n","t","i","f","i","c","a","t","i","o","n",".">> (* Smith is a common name - please provide more details for identification. *)],
    [term |-> <<"m","a","n","y">> (* many *),
     questions |-> << <<"H","o","w"," ","m","a","n","y"," ","w","o","u","l","d"," ","y","o","u"," ","c","o","n","s","i","d","e","r"," ","'","m","a","n","y","'","?"," ","(","e",".","g",".",","," ","'","m","o","r","e"," ","t","h","a","n"," ","1","0","'",","," ","'","o","v","e","r"," ","5","0","'",")">> (* How many would you consider 'many'? (e.g., 'more than 10', 'over 50') *) >>,
     explanation |-> <<"P","l","e","a","s","e"," ","s","p","e","c","i","f","y"," ","w","h","a","t"," ","q","u","a","n","t","i","t","y"," ","y","o","u"," ","c","o","n","s","i","d","e","r"," ","'","m","a","n","y","'",".">> (* Please specify what quantity you consider 'many'. *)],
    [term |-> <<"f","e","w">> (* few *),
     questions |-> << <<"W","h","a","t"," ","n","u","m","b","e","r"," ","r","a","n","g","e"," ","i","s"," ","'","f","e","w","'"," ","t","o"," ","y","o","u","?"," ","(","e",".","g",".",","," ","'","1","-","5","'",","," ","'","l","e","s","s"," ","t","h","a","n"," ","1","0","'",")">> (* What number range is 'few' to you? (e.g., '1-5', 'less than 10') *) >>,
     explanation |-> <<"P","l","e","a","s","e"," ","c","l","a","r","i","f","y"," ","w","h","a","t"," ","y","o","u"," ","c","o","n","s","i","d","e","r"," ","'","f","e","w","'"," ","i","t","e","m","s",".">> (* Please clarify what you consider 'few' items. *)],
    [term |-> <<"t","r","a","n","s","a","c","t","i","o","n","s">> (* transactions *),
     questions |-> << <<"W","h","a","t"," ","t","y","p","e"," ","o","f"," ","t","r","a","n","s","a","c","t","i","o","n","s","?"," ","(","e",".","g",".",","," ","'","a","l","l"," ","t","y","p","e","s","'",","," ","'","d","e","p","o","s","i","t","s"," ","o","n","l","y","'",","," ","'","w","i","t","h","d","r","a","w","a","l","s","'",")">> (* What type of transactions? (e.g., 'all types', 'deposits only', 'withdrawals') *) >>,
     explanation |-> <<"T","h","e","r","e"," ","a","r","e"," ","d","i","f","f","e","r","e","n","t"," ","t","y","p","e","s"," ","o","f"," ","t","r","a","n","s","a","c","t","i","o","n","s"," ","-"," ","p","l","e","a","s","e"," ","s","p","e","c","i","f","y"," ","w","h","i","c","h"," ","o","n","e","s"," ","y","o","u","'","r","e"," ","i","n","t","e","r","e","s","t","e","d"," ","i","n",".">> (* There are different types of transactions - please specify which ones you're interested in. *)] >>

\* questions[:2]
FirstTwo(questions) == SubSeq(questions, 1, IF Len(questions) < 2 THEN Len(questions) ELSE 2)

ActionVerbs == { <<"s","h","o","w">> (* show *), <<"f","i","n","d">> (* find *), <<"l","i","s","t">> (* list *), <<"d","i","s","p","l","a","y">> (* display *) }

_simple_ambiguity_check_last_match(user_input) ==
    LET user_lower == Lower(user_input)
        hits == {k \in 1..Len(ambiguity_patterns) : Contains(user_lower, ambiguity_patterns[k].term)}
    IN  IF hits # {}
        THEN LET last == CHOOSE k \in hits : \A j \in hits : k >= j IN
             [is_ambiguous |-> TRUE,
              explanation |-> ambiguity_patterns[last].explanation,
              questions |-> FirstTwo(ambiguity_patterns[last].questions)]
        ELSE [is_ambiguous |-> FALSE, explanation |-> <<"Q","u","e","r","y"," ","a","p","p","e","a","r","s"," ","c","l","e","a","r">> (* Query appears clear *), questions |-> <<>>]

_simple_ambiguity_check(user_input) ==
    LET user_lower == Lower(user_input)
        hits == {k \in 1..Len(ambiguity_patterns) : Contains(user_lower, ambiguity_patterns[k].term)}
    IN  IF hits # {}
        THEN LET first == CHOOSE k \in hits : \A j \in hits : k <= j IN
             [is_ambiguous |-> TRUE,
              explanation |-> ambiguity_patterns[first].explanation,
              questions |-> FirstTwo(ambiguity_patterns[first].questions)]
        ELSE IF WordCount(user_input) <= 3 /\ ~\E word \in ActionVerbs : Contains(user_lower, word)
        THEN [is_ambiguous |-> TRUE,
              explanation |-> <<"Y","o","u","r"," ","q","u","e","r","y"," ","i","s"," ","q","u","i","t","e"," ","b","r","i","e","f"," ","-"," ","a"," ","b","i","t"," ","m","o","r","e"," ","d","e","t","a","i","l"," ","w","o","u","l","d"," ","h","e","l","p"," ","m","e"," ","g","i","v","e"," ","y","o","u"," ","b","e","t","t","e","r"," ","r","e","s","u","l","t","s",".">> (* Your query is quite brief - a bit more detail would help me give you better results. *),
              questions |-> << <<"W","h","a","t"," ","s","p","e","c","i","f","i","c"," ","i","n","f","o","r","m","a","t","i","o","n"," ","a","r","e"," ","y","o","u"," ","l","o","o","k","i","n","g"," ","f","o","r","?">> (* What specific information are you looking for? *),
                               <<"A","n","y"," ","p","a","r","t","i","c","u","l","a","r"," ","t","i","m","e"," ","p","e","r","i","o","d"," ","o","r"," ","a","m","o","u","n","t"," ","r","a","n","g","e","?">> (* Any particular time period or amount range? *) >>]
        ELSE [is_ambiguous |-> FALSE, explanation |-> <<"Q","u","e","r","y"," ","a","p","p","e","a","r","s"," ","c","l","e","a","r">> (* Query appears clear *), questions |-> <<>>]

check_ambiguity_ignoring_context(user_input, context) == _simple_ambiguity_check(user_input)

check_ambiguity(user_input, context) ==
    IF context # None /\ "clarifications" \in DOMAIN context
    THEN [is_ambiguous |-> FALSE,
          explanation |-> <<"Q","u","e","r","y"," ","e","n","h","a","n","c","e","d"," ","w","i","t","h"," ","u","s","e","r"," ","c","l","a","r","i","f","i","c","a","t","i","o","n","s"," ","o","r"," ","p","r","o","c","e","e","d","i","n","g"," ","w","i","t","h"," ","s","m","a","r","t"," ","d","e","f","a","u","l","t","s">> (* Query enhanced with user clarifications or proceeding with smart defaults *),
          questions |-> <<>>]
    ELSE _simple_ambiguity_check(user_input)

\* process_query: if ambiguity_check["is_ambiguous"], return clarification_needed
needs_clarification_never(ambiguity_check) == FALSE

needs_clarification(ambiguity_check) == ambiguity_check.is_ambiguous

\* compress_context raises: context['clarifications'][:30] slices a dict
compress_context_raises(context) ==
    /\ context # None
    /\ "clarifications" \in DOMAIN context
    /\ DOMAIN context["clarifications"] # {}

\* the message of that exception
SliceErrorText == <<"u","n","h","a","s","h","a","b","l","e"," ","t","y","p","e",":"," ","'","s","l","i","c","e","'">> (* unhashable type: 'slice' *)

\* get_sql_from_nl: remove code block markers
CleanCodeBlocks(sql_query) ==
    IF Contains(sql_query, <<Backtick,Backtick,Backtick,"s","q","l">>)
    THEN Strip(Between(sql_query, Find(sql_query, <<Backtick,Backtick,Backtick,"s","q","l">>) + 6, <<Backtick,Backtick,Backtick>>))
    ELSE IF Contains(sql_query, <<Backtick,Backtick,Backtick>>)
    THEN Strip(Between(sql_query, Find(sql_query, <<Backtick,Backtick,Backtick>>) + 3, <<Backtick,Backtick,Backtick>>))
    ELSE sql_query

ClauseKeywords == { <<"F","R","O","M">> (* FROM *), <<"W","H","E","R","E">> (* WHERE *), <<"J","O","I","N">> (* JOIN *), <<"O","N">> (* ON *), <<"O","R","D","E","R">> (* ORDER *), <<"G","R","O","U","P">> (* GROUP *), <<"H","A","V","I","N","G">> (* HAVING *), <<"L","I","M","I","T">> (* LIMIT *) }
StatementStarts == { <<"S","E","L","E","C","T">> (* SELECT *), <<"I","N","S","E","R","T">> (* INSERT *), <<"U","P","D","A","T","E">> (* UPDATE *), <<"D","E","L","E","T","E">> (* DELETE *) }
CommentStarts == { <<"#">> (* # *), <<"/","/">> (* // *), <<"-","-">> (* -- *) }

\* get_sql_from_nl: the loop that collects the lines of the SELECT statement
RECURSIVE CollectLines(_, _, _, _)
CollectLines(lines, k, found_select, clean_lines) ==
    IF k > Len(lines) THEN clean_lines
    ELSE LET line == Strip(lines[k])
             up == Upper(line)
         IN  IF StartsWith(up, <<"S","E","L","E","C","T">> (* SELECT *))
             THEN CollectLines(lines, k + 1, TRUE, Append(clean_lines, line))
             ELSE IF found_select /\ line # <<>>
             THEN IF \E keyword \in ClauseKeywords : Contains(up, keyword)
                  THEN CollectLines(lines, k + 1, found_select, Append(clean_lines, line))
                  ELSE IF \E st \in StatementStarts : StartsWith(up, st)
                  THEN clean_lines
                  ELSE IF ~\E c \in CommentStarts : StartsWith(line, c)
                  THEN CollectLines(lines, k + 1, found_select, Append(clean_lines, line))
                  ELSE CollectLines(lines, k + 1, found_select, clean_lines)
             ELSE CollectLines(lines, k + 1, found_select, clean_lines)

\* get_sql_from_nl: from the raw response to the single-line statement
ExtractSQL(response_text) ==
    LET cleaned == CleanCodeBlocks(Strip(response_text))
        clean_lines == CollectLines(SplitLines(cleaned, 1), 1, FALSE, <<>>)
        joined == IF clean_lines # <<>> THEN JoinSpace(clean_lines, 1) ELSE cleaned
    IN  RStripChars(NormalizeSpaces(joined), {";"})

\* get_sql_from_nl, steps 1 and 3: the compound date columns and their placeholders
protected_columns == <<
    << <<"d","a","t","e","_","o","f","_","b","i","r","t","h">> (* date_of_birth *), <<"T","E","M","P","_","P","R","O","T","E","C","T","_","D","O","B">> (* TEMP_PROTECT_DOB *) >>,
    << <<"b","i","r","t","h","_","d","a","t","e">> (* birth_date *), <<"T","E","M","P","_","P","R","O","T","E","C","T","_","B","D">> (* TEMP_PROTECT_BD *) >>,
    << <<"h","i","r","e","_","d","a","t","e">> (* hire_date *), <<"T","E","M","P","_","P","R","O","T","E","C","T","_","H","D">> (* TEMP_PROTECT_HD *) >>,
    << <<"o","p","e","n","e","d","_","a","t">> (* opened_at *), <<"T","E","M","P","_","P","R","O","T","E","C","T","_","O","A">> (* TEMP_PROTECT_OA *) >> >>

Swapped(pairs) == [k \in 1..Len(pairs) |-> << pairs[k][2], pairs[k][1] >>]

\* step 4: preserve SQL date functions
date_function_fixes == <<
    << <<"t","r","a","n","s","a","c","t","i","o","n","_","d","a","t","e","(","'","n","o","w","'">> (* transaction_date('now' *), <<"d","a","t","e","(","'","n","o","w","'">> (* date('now' *) >>,
    << <<"t","r","a","n","s","a","c","t","i","o","n","_","d","a","t","e","(">> (* transaction_date( *), <<"d","a","t","e","(">> (* date( *) >>,
    << <<"s","t","r","f","t","r","a","n","s","a","c","t","i","o","n","_","d","a","t","e","(">> (* strftransaction_date( *), <<"s","t","r","f","d","a","t","e","(">> (* strfdate( *) >> >>

\* steps 1 to 4 of the column fix
FixDateColumn(sql_query) ==
    LET protected == ReplaceAll(sql_query, protected_columns, 1)
        replaced == SubWordIC(protected, <<"d","a","t","e">> (* date *), <<"t","r","a","n","s","a","c","t","i","o","n","_","d","a","t","e">> (* transaction_date *))
        restored == ReplaceAll(replaced, Swapped(protected_columns), 1)
    IN  ReplaceAll(restored, date_function_fixes, 1)

_add_limit_safely(sql_query) ==
    LET sql_upper == Upper(sql_query)
        sql_clean == Strip(sql_query)
    IN  IF Contains(sql_upper, <<"L","I","M","I","T">> (* LIMIT *)) THEN sql_clean
        ELSE IF Contains(sql_upper, <<"O","R","D","E","R"," ","B","Y">> (* ORDER BY *))
        THEN LET order_by_pos == Find(sql_upper, <<"O","R","D","E","R"," ","B","Y">> (* ORDER BY *))
                 before_order == Strip(SubSeq(sql_query, 1, order_by_pos - 1))
                 order_clause == Strip(From(sql_query, order_by_pos))
             IN  before_order \o <<" ">> (*   *) \o order_clause \o <<" ","L","I","M","I","T"," ","1","0","0","0">> (*  LIMIT 1000 *)
        ELSE Strip(RStripChars(sql_clean, {";"})) \o <<" ","L","I","M","I","T"," ","1","0","0","0">> (*  LIMIT 1000 *)

\* the LIMIT step of get_sql_from_nl
EnsureLimit(sql_query) ==
    IF ~Contains(Upper(sql_query), <<"L","I","M","I","T">> (* LIMIT *)) THEN _add_limit_safely(sql_query) ELSE sql_query

\* the correction of get_sql_from_nl: column fix, then LIMIT
AgentCorrect(sql_query) == EnsureLimit(FixDateColumn(sql_query))

\* get_sql_from_nl when llm.invoke returned response_text
GeneratedSQL(response_text) ==
    LET sql_query == ExtractSQL(response_text) IN
    IF sql_query # <<>> /\ StartsWith(Upper(sql_query), <<"S","E","L","E","C","T">> (* SELECT *))
    THEN [type |-> "success", sql |-> AgentCorrect(sql_query), confidence |-> 9]
    ELSE [type |-> "error", message |-> <<"C","o","u","l","d"," ","n","o","t"," ","g","e","n","e","r","a","t","e"," ","v","a","l","i","d"," ","S","Q","L"," ","q","u","e","r","y","."," ","L","L","M"," ","r","e","t","u","r","n","e","d",":"," ">> (* Could not generate valid SQL query. LLM returned:  *) \o SubSeq(Strip(response_text), 1, IF Len(Strip(response_text)) < 200 THEN Len(Strip(response_text)) ELSE 200) \o <<".",".",".">> (* ... *),
          confidence |-> 0]

fallback_patterns == <<
    << <<"c","u","s","t","o","m","e","r","s">> (* customers *), <<"S","E","L","E","C","T"," ","*"," ","F","R","O","M"," ","c","u","s","t","o","m","e","r","s"," ","L","I","M","I","T"," ","1","0">> (* SELECT * FROM customers LIMIT 10 *) >>,
    << <<"a","c","c","o","u","n","t","s">> (* accounts *), <<"S","E","L","E","C","T"," ","*"," ","F","R","O","M"," ","a","c","c","o","u","n","t","s"," ","L","I","M","I","T"," ","1","0">> (* SELECT * FROM accounts LIMIT 10 *) >>,
    << <<"t","r","a","n","s","a","c","t","i","o","n","s">> (* transactions *), <<"S","E","L","E","C","T"," ","*"," ","F","R","O","M"," ","t","r","a","n","s","a","c","t","i","o","n","s"," ","O","R","D","E","R"," ","B","Y"," ","d","a","t","e"," ","D","E","S","C"," ","L","I","M","I","T"," ","1","0">> (* SELECT * FROM transactions ORDER BY date DESC LIMIT 10 *) >>,
    << <<"b","a","l","a","n","c","e">> (* balance *), <<"S","E","L","E","C","T"," ","c",".","n","a","m","e",","," ","a",".","t","y","p","e",","," ","a",".","b","a","l","a","n","c","e"," ","F","R","O","M"," ","c","u","s","t","o","m","e","r","s"," ","c"," ","J","O","I","N"," ","a","c","c","o","u","n","t","s"," ","a"," ","O","N"," ","c",".","i","d"," ","="," ","a",".","c","u","s","t","o","m","e","r","_","i","d"," ","O","R","D","E","R"," ","B","Y"," ","a",".","b","a","l","a","n","c","e"," ","D","E","S","C"," ","L","I","M","I","T"," ","1","0">> (* SELECT c.name, a.type, a.balance FROM customers c JOIN accounts a ON c.id = a.customer_id ORDER BY a.balance DESC LIMIT 10 *) >>,
    << <<"r","e","c","e","n","t">> (* recent *), <<"S","E","L","E","C","T"," ","t",".","*",","," ","c",".","n","a","m","e"," ","F","R","O","M"," ","t","r","a","n","s","a","c","t","i","o","n","s"," ","t"," ","J","O","I","N"," ","a","c","c","o","u","n","t","s"," ","a"," ","O","N"," ","t",".","a","c","c","o","u","n","t","_","i","d"," ","="," ","a",".","i","d"," ","J","O","I","N"," ","c","u","s","t","o","m","e","r","s"," ","c"," ","O","N"," ","a",".","c","u","s","t","o","m","e","r","_","i","d"," ","="," ","c",".","i","d"," ","O","R","D","E","R"," ","B","Y"," ","t",".","d","a","t","e"," ","D","E","S","C"," ","L","I","M","I","T"," ","1","0">> (* SELECT t.*, c.name FROM transactions t JOIN accounts a ON t.account_id = a.id JOIN customers c ON a.customer_id = c.id ORDER BY t.date DESC LIMIT 10 *) >>,
    << <<"h","i","g","h">> (* high *), <<"S","E","L","E","C","T"," ","c",".","n","a","m","e",","," ","a",".","t","y","p","e",","," ","a",".","b","a","l","a","n","c","e"," ","F","R","O","M"," ","c","u","s","t","o","m","e","r","s"," ","c"," ","J","O","I","N"," ","a","c","c","o","u","n","t","s"," ","a"," ","O","N"," ","c",".","i","d"," ","="," ","a",".","c","u","s","t","o","m","e","r","_","i","d"," ","W","H","E","R","E"," ","a",".","b","a","l","a","n","c","e"," ",">"," ","5","0","0","0","0"," ","O","R","D","E","R"," ","B","Y"," ","a",".","b","a","l","a","n","c","e"," ","D","E","S","C"," ","L","I","M","I","T"," ","1","0">> (* SELECT c.name, a.type, a.balance FROM customers c JOIN accounts a ON c.id = a.customer_id WHERE a.balance > 50000 ORDER BY a.balance DESC LIMIT 10 *) >>,
    << <<"e","m","p","l","o","y","e","e">> (* employee *), <<"S","E","L","E","C","T"," ","e",".","*",","," ","b",".","n","a","m","e"," ","a","s"," ","b","r","a","n","c","h","_","n","a","m","e"," ","F","R","O","M"," ","e","m","p","l","o","y","e","e","s"," ","e"," ","J","O","I","N"," ","b","r","a","n","c","h","e","s"," ","b"," ","O","N"," ","e",".","b","r","a","n","c","h","_","i","d"," ","="," ","b",".","i","d"," ","L","I","M","I","T"," ","1","0">> (* SELECT e.*, b.name as branch_name FROM employees e JOIN branches b ON e.branch_id = b.id LIMIT 10 *) >>,
    << <<"b","r","a","n","c","h">> (* branch *), <<"S","E","L","E","C","T"," ","*"," ","F","R","O","M"," ","b","r","a","n","c","h","e","s"," ","L","I","M","I","T"," ","1","0">> (* SELECT * FROM branches LIMIT 10 *) >>,
    << <<"m","o","n","t","h","l","y">> (* monthly *), <<"S","E","L","E","C","T"," ","s","t","r","f","t","i","m","e","(","'","%","Y","-","%","m","'",","," ","d","a","t","e",")"," ","a","s"," ","m","o","n","t","h",","," ","C","O","U","N","T","(","*",")"," ","a","s"," ","t","r","a","n","s","a","c","t","i","o","n","_","c","o","u","n","t",","," ","S","U","M","(","a","m","o","u","n","t",")"," ","a","s"," ","t","o","t","a","l","_","a","m","o","u","n","t"," ","F","R","O","M"," ","t","r","a","n","s","a","c","t","i","o","n","s"," ","G","R","O","U","P"," ","B","Y"," ","s","t","r","f","t","i","m","e","(","'","%","Y","-","%","m","'",","," ","d","a","t","e",")"," ","O","R","D","E","R"," ","B","Y"," ","m","o","n","t","h"," ","D","E","S","C"," ","L","I","M","I","T"," ","1","2">> >>,
    << <<"a","v","e","r","a","g","e">> (* average *), <<"S","E","L","E","C","T"," ","A","V","G","(","b","a","l","a","n","c","e",")"," ","a","s"," ","a","v","g","_","b","a","l","a","n","c","e",","," ","C","O","U","N","T","(","*",")"," ","a","s"," ","a","c","c","o","u","n","t","_","c","o","u","n","t"," ","F","R","O","M"," ","a","c","c","o","u","n","t","s">> >> >>

default_fallback == <<"S","E","L","E","C","T"," ","t",".","*",","," ","c",".","n","a","m","e"," ","a","s"," ","c","u","s","t","o","m","e","r","_","n","a","m","e"," ","F","R","O","M"," ","t","r","a","n","s","a","c","t","i","o","n","s"," ","t"," ","J","O","I","N"," ","a","c","c","o","u","n","t","s"," ","a"," ","O","N"," ","t",".","a","c","c","o","u","n","t","_","i","d"," ","="," ","a",".","i","d"," ","J","O","I","N"," ","c","u","s","t","o","m","e","r","s"," ","c"," ","O","N"," ","a",".","c","u","s","t","o","m","e","r","_","i","d"," ","="," ","c",".","i","d"," ","O","R","D","E","R"," ","B","Y"," ","t",".","d","a","t","e"," ","D","E","S","C"," ","L","I","M","I","T"," ","1","0">> (* SELECT t.*, c.name as customer_name FROM transactions t JOIN accounts a ON t.account_id = a.id JOIN customers c ON a.customer_id = c.id ORDER BY t.date DESC LIMIT 10 *)

_get_fallback_query_default_only(user_input) == default_fallback

_get_fallback_query(user_input) ==
    LET user_lower == Lower(user_input)
        hits == {k \in 1..Len(fallback_patterns) : Contains(user_lower, fallback_patterns[k][1])}
    IN  IF hits # {}
        THEN fallback_patterns[CHOOSE k \in hits : \A j \in hits : k <= j][2]
        ELSE default_fallback

\* the except branch of get_sql_from_nl: error_str names a quota failure
IsQuotaError(e) ==
    LET error_str == Lower(e) IN
    \/ Contains(error_str, <<"q","u","o","t","a">> (* quota *))
    \/ Contains(error_str, <<"4","2","9">> (* 429 *))
    \/ Contains(error_str, <<"r","e","s","o","u","r","c","e","e","x","h","a","u","s","t","e","d">> (* resourceexhausted *))

\* get_sql_from_nl when the try block raised e
FailedSQL(user_input, e) ==
    IF IsQuotaError(e)
    THEN [type |-> "success", sql |-> _get_fallback_query(user_input), confidence |-> 7]
    ELSE [type |-> "error", message |-> <<"S","Q","L"," ","g","e","n","e","r","a","t","i","o","n"," ","f","a","i","l","e","d",":"," ">> (* SQL generation failed:  *) \o e, confidence |-> 0]

write_ops == { <<"i","n","s","e","r","t">> (* insert *), <<"u","p","d","a","t","e">> (* update *), <<"d","e","l","e","t","e">> (* delete *), <<"d","r","o","p">> (* drop *), <<"a","l","t","e","r">> (* alter *), <<"c","r","e","a","t","e">> (* create *), <<"t","r","u","n","c","a","t","e">> (* truncate *) }
valid_tables == { <<"c","u","s","t","o","m","e","r","s">> (* customers *), <<"a","c","c","o","u","n","t","s">> (* accounts *), <<"t","r","a","n","s","a","c","t","i","o","n","s">> (* transactions *), <<"b","r","a","n","c","h","e","s">> (* branches *), <<"e","m","p","l","o","y","e","e","s">> (* employees *) }

\* GeminiAgent.validate_sql
validate_sql(sql_query) ==
    LET sql == Strip(sql_query)
        sql_lower == Lower(sql)
        padded == <<" ">> (*   *) \o sql_lower \o <<" ">> (*   *)
    IN  IF ~StartsWith(sql_lower, <<"s","e","l","e","c","t">> (* select *))
        THEN [type |-> "error", message |-> <<"O","n","l","y"," ","S","E","L","E","C","T"," ","o","p","e","r","a","t","i","o","n","s"," ","a","r","e"," ","a","l","l","o","w","e","d">> (* Only SELECT operations are allowed *)]
        ELSE IF \E op \in write_ops : Contains(padded, <<" ">> (*   *) \o op \o <<" ">> (*   *))
        THEN [type |-> "error", message |-> <<"O","n","l","y"," ","S","E","L","E","C","T"," ","o","p","e","r","a","t","i","o","n","s"," ","a","r","e"," ","a","l","l","o","w","e","d">> (* Only SELECT operations are allowed *)]
        ELSE IF ~\E table \in valid_tables : Contains(sql_lower, table)
        THEN [type |-> "error", message |-> <<"Q","u","e","r","y"," ","m","u","s","t"," ","r","e","f","e","r","e","n","c","e"," ","a","t"," ","l","e","a","s","t"," ","o","n","e"," ","v","a","l","i","d"," ","t","a","b","l","e">> (* Query must reference at least one valid table *)]
        ELSE [type |-> "success", sql |-> sql]

\* process_query from get_sql_from_nl's result on, validate_and_execute
\* ending as outcome: the response it returns
ProcessResponse(result, outcome) ==
    IF result.type = "success"
    THEN LET validated_sql == validate_sql(result.sql) IN
         IF validated_sql.type = "success"
         THEN [type |-> "success", sql |-> validated_sql.sql,
               explanation |-> IF outcome = "rows" THEN <<"E","x","e","c","u","t","e","d"," ","S","Q","L",":"," ">> (* Executed SQL:  *) \o validated_sql.sql
                               ELSE <<"n","o"," ","s","u","c","h"," ","c","o","l","u","m","n",":"," ","d","a","t","e">> (* no such column: date *),
               confidence |-> result.confidence,
               result |-> IF outcome = "rows" THEN << "row" >> ELSE None]
         ELSE [type |-> "error", sql |-> result.sql, explanation |-> validated_sql.message,
               confidence |-> 5, result |-> None]
    ELSE [type |-> "error", sql |-> None, explanation |-> result.message,
          confidence |-> 0, result |-> None]


----------------------------------------------------------------------------
(* BankingApp (app.py)                                                     *)

\* handle_user_query: is_safe = validation_result.get("safe", True) and ...get("valid", True)
is_safe_always(validation_result) == TRUE

is_safe(validation_result) ==
    Get(validation_result, "safe", TRUE) /\ Get(validation_result, "valid", TRUE)

\* handle_user_query, the error branch: the result stored for an agent error
\* (the messages without their leading emoji)
AgentErrorResult(explanation) ==
    LET error_msg == IF explanation # <<>> THEN explanation ELSE <<"C","o","u","l","d"," ","n","o","t"," ","g","e","n","e","r","a","t","e"," ","S","Q","L"," ","q","u","e","r","y">> (* Could not generate SQL query *)
        lower == Lower(error_msg)
    IN  IF Contains(lower, <<"q","u","o","t","a">> (* quota *)) \/ Contains(error_msg, <<"4","2","9">> (* 429 *))
        THEN [error |-> <<"G","o","o","g","l","e"," ","A","P","I"," ","q","u","o","t","a"," ","e","x","c","e","e","d","e","d"," ","(","5","0"," ","r","e","q","u","e","s","t","s","/","d","a","y"," ","l","i","m","i","t"," ","r","e","a","c","h","e","d",")","."," ","P","l","e","a","s","e"," ","t","r","y"," ","a","g","a","i","n"," ","t","o","m","o","r","r","o","w"," ","o","r"," ","u","p","g","r","a","d","e"," ","y","o","u","r"," ","A","P","I"," ","p","l","a","n",".">> (* Google API quota exceeded (50 requests/day limit reached). Please try again tomorrow or upgrade your API plan. *),
              suggestion |-> <<"T","h","e"," ","f","r","e","e"," ","t","i","e","r"," ","a","l","l","o","w","s"," ","5","0"," ","r","e","q","u","e","s","t","s"," ","p","e","r"," ","d","a","y","."," ","C","o","n","s","i","d","e","r"," ","u","p","g","r","a","d","i","n","g"," ","t","o"," ","a"," ","p","a","i","d"," ","p","l","a","n"," ","f","o","r"," ","u","n","l","i","m","i","t","e","d"," ","u","s","a","g","e",".">> (* The free tier allows 50 requests per day. Consider upgrading to a paid plan for unlimited usage. *)]
        ELSE IF Contains(lower, <<"a","p","i">> (* api *)) /\ Contains(lower, <<"k","e","y">> (* key *))
        THEN [error |-> <<"A","P","I"," ","k","e","y"," ","i","s","s","u","e"," ","d","e","t","e","c","t","e","d">> (* API key issue detected *),
              suggestion |-> <<"P","l","e","a","s","e"," ","c","h","e","c","k"," ","y","o","u","r"," ","G","o","o","g","l","e"," ","A","P","I"," ","k","e","y"," ","c","o","n","f","i","g","u","r","a","t","i","o","n",".">> (* Please check your Google API key configuration. *)]
        ELSE [error |-> error_msg,
              suggestion |-> <<"P","l","e","a","s","e"," ","t","r","y"," ","r","e","p","h","r","a","s","i","n","g"," ","y","o","u","r"," ","q","u","e","s","t","i","o","n"," ","o","r"," ","p","r","o","v","i","d","e"," ","m","o","r","e"," ","s","p","e","c","i","f","i","c"," ","d","e","t","a","i","l","s",".">> (* Please try rephrasing your question or provide more specific details. *)]

\* render_clarification_form: the clarifications dict, keyed by question number
Clarifications(follow_up_questions, answers) ==
    [i \in {j \in DOMAIN answers : j \in DOMAIN follow_up_questions /\ Strip(answers[j]) # <<>>} |->
        follow_up_questions[i] \o <<" ","A","n","s","w","e","r",":"," ">> (*  Answer:  *) \o Strip(answers[i])]

\* process_clarified_query: the context and the enhanced query of a follow-up
\* (answered_count: the number of answers of the form, fewer than ten)
ClarifiedContext(original_query, clarifications, answered_count) ==
    [previous_query |-> original_query,
     clarifications |-> clarifications,
     additional_info |-> IF answered_count > 0
                         THEN <<"U","s","e","r"," ","p","r","o","v","i","d","e","d"," ">> (* User provided  *) \o << DigitChars[answered_count + 1] >> \o <<" ","c","l","a","r","i","f","i","c","a","t","i","o","n","s">> (*  clarifications *)
                         ELSE <<"U","s","e","r"," ","c","h","o","s","e"," ","t","o"," ","p","r","o","c","e","e","d"," ","w","i","t","h"," ","o","r","i","g","i","n","a","l"," ","q","u","e","r","y">> (* User chose to proceed with original query *)]

\* '; '.join(clarifications.values()), in the order of the questions
RECURSIVE JoinAnswers(_, _)
JoinAnswers(clarifications, keys) ==
    IF keys = {} THEN <<>>
    ELSE LET k == CHOOSE k \in keys : \A j \in keys : k <= j IN
         IF keys = {k} THEN clarifications[k]
         ELSE clarifications[k] \o <<";"," ">> (* ;  *) \o JoinAnswers(clarifications, keys \ {k})

EnhancedQuery(original_query, clarifications) ==
    IF DOMAIN clarifications # {}
    THEN original_query \o <<"."," ","A","d","d","i","t","i","o","n","a","l"," ","c","o","n","t","e","x","t",":"," ">> (* . Additional context:  *) \o JoinAnswers(clarifications, DOMAIN clarifications)
    ELSE original_query \o <<"."," ","U","s","e"," ","r","e","a","s","o","n","a","b","l","e"," ","d","e","f","a","u","l","t","s"," ","f","o","r"," ","a","n","y"," ","a","m","b","i","g","u","o","u","s"," ","t","e","r","m","s",".">> (* . Use reasonable defaults for any ambiguous terms. *)

----------------------------------------------------------------------------
(* Bounds and the inputs drawn from them                                   *)

\* turns a session starts afresh (a clarified follow-up belongs to its turn)
MaxTurns == 1
\* fragments per text of a family
MaxParts == 2
\* validate_query calls of one validator
MaxCalls == 3
\* times a text is put through the correction steps
MaxCorrections == 2

Levels == { <<"s","t","r","i","c","t">> (* strict *), <<"m","o","d","e","r","a","t","e">> (* moderate *), <<"l","e","n","i","e","n","t">> (* lenient *) }

RECURSIVE Concat(_, _, _)
Concat(frags, ix, k) ==
    IF k > Len(ix) THEN <<>> ELSE frags[ix[k]] \o Concat(frags, ix, k + 1)

\* every concatenation of 1..n of the fragments
TextsOf(frags, n) ==
    {Concat(frags, ix, 1) : ix \in UNION {[1..k -> 1..Len(frags)] : k \in 1..n}}

SafetyFragments == <<
    <<"S","E","L","E","C","T"," ","*"," ","F","R","O","M"," ","c","u","s","t","o","m","e","r","s">> (* SELECT * FROM customers *),
    <<"S","E","L","E","C","T"," ","d","a","t","e"," ","F","R","O","M"," ","t","r","a","n","s","a","c","t","i","o","n","s">> (* SELECT date FROM transactions *),
    <<"S","E","L","E","C","T","E","D">> (* SELECTED *),
    <<"U","P","D","A","T","E"," ","a","c","c","o","u","n","t","s"," ","S","E","T"," ","s","t","a","t","u","s"," ","="," ","'","e","l","s","e","w","h","e","r","e","'">> (* UPDATE accounts SET status = 'elsewhere' *),
    <<"D","E","L","E","T","E"," ","F","R","O","M"," ","a","c","c","o","u","n","t","s">> (* DELETE FROM accounts *),
    <<"I","N","S","E","R","T"," ","I","N","T","O"," ","b","r","a","n","c","h","e","s"," ","V","A","L","U","E","S"," ","(","1",")">> (* INSERT INTO branches VALUES (1) *),
    <<" ","W","H","E","R","E"," ","i","d"," ","="," ","1">> (*  WHERE id = 1 *),
    <<";"," ","D","R","O","P"," ","T","A","B","L","E"," ","c","u","s","t","o","m","e","r","s",";">> (* ; DROP TABLE customers; *),
    <<";"," ","I","N","S","E","R","T"," ","I","N","T","O"," ","b","r","a","n","c","h","e","s"," ","V","A","L","U","E","S"," ","(","1",")">> (* ; INSERT INTO branches VALUES (1) *),
    <<";"," "," ","d","e","l","e","t","e"," ","f","r","o","m"," ","a","c","c","o","u","n","t","s">> (* ;  delete from accounts *),
    <<" ","a","l","t","e","r">> (*  alter *),
    <<" ","T","r","u","n","c","a","t","e">> (*  Truncate *) >>

SafetyTexts == TextsOf(SafetyFragments, MaxParts)

CorrectFragments == <<
    <<" ","d","a","t","e">> (*  date *),
    <<" ","e","m","p","l","o","y","e","e","_","i","d">> (*  employee_id *),
    <<" ","d","a","t","e","_","o","f","_","b","i","r","t","h">> (*  date_of_birth *),
    <<" ","F","R","O","M"," ","t","r","a","n","s","a","c","t","i","o","n","s">> (*  FROM transactions *),
    <<" ","F","R","O","M"," ","c","u","s","t","o","m","e","r","s">> (*  FROM customers *),
    <<" ","W","H","E","R","E"," ","a","d","d","r","e","s","s"," ","L","I","K","E"," ","'","%","L","i","m","i","t","e","d","%","'">> (*  WHERE address LIKE '%Limited%' *),
    <<" ","O","R","D","E","R"," ","B","Y"," ","d","a","t","e">> (*  ORDER BY date *),
    <<" ","L","I","M","I","T"," ","1","0">> (*  LIMIT 10 *),
    <<" ","d","a","t","e"," ","F","R","O","M"," ","t","r","a","n","s","a","c","t","i","o","n","s"," ","W","H","E","R","E"," ","d","a","t","e"," ",">"," ","d","a","t","e","(","'","n","o","w","'",",","'","-","7"," ","d","a","y","s","'",")">> (*  date FROM transactions WHERE date > date('now','-7 days') *),
    <<" ","D","A","T","E","(","h","i","r","e","_","d","a","t","e",")",","," ","D","a","t","e">> (*  DATE(hire_date), Date *),
    <<" ","d","a","t","e"," ","(","'","n","o","w","'",")">> (*  date ('now') *),
    <<" ","c",".","n","a","m","e"," ","F","R","O","M"," ","c","u","s","t","o","m","e","r","s"," ","c"," ","L","I","M","I","T"," ","1","0","0","0">> (*  c.name FROM customers c LIMIT 1000 *),
    <<" ","n","a","m","e"," ","F","R","O","M"," ","c","u","s","t","o","m","e","r","s">> (*  name FROM customers *),
    <<" ","W","H","E","R","E"," ","c",".","n","a","m","e"," ","L","I","K","E"," ","'","A","%","'">> (*  WHERE c.name LIKE 'A%' *),
    <<" ","c","u","s","t","o","m","e","r","s",".","n","a","m","e",","," ","e","m","a","i","l"," ","F","R","O","M"," ","c","u","s","t","o","m","e","r","s"," ","O","R","D","E","R"," ","B","Y"," ","n","a","m","e">> (*  customers.name, email FROM customers ORDER BY name *) >>

\* candidate statements: SELECT and 1..MaxParts fragments, single-spaced
CorrectTexts == {<<"S","E","L","E","C","T">> (* SELECT *) \o t : t \in TextsOf(CorrectFragments, MaxParts)}

\* words a request is made of
AmbiguityFragments == <<
    <<" ","s","h","o","w">> (*  show *),
    <<" ","h","e","l","l","o">> (*  hello *),
    <<" ","a","c","c","o","u","n","t","s">> (*  accounts *),
    <<" ","r","e","c","e","n","t">> (*  recent *),
    <<" ","l","a","r","g","e">> (*  large *),
    <<" ","o","l","d","e","r">> (*  older *),
    <<" ","t","r","a","n","s","a","c","t","i","o","n","s">> (*  transactions *),
    <<" ","J","o","h","n"," ","S","m","i","t","h">> (*  John Smith *),
    <<" ","m","y"," ","f","e","w">> (*  my few *),
    <<" ","m","a","n","y"," ","h","i","g","h">> (*  many high *),
    <<" ","s","m","a","l","l",","," ","l","o","w">> (*  small, low *),
    <<" ","R","E","C","E","N","T"," ","l","a","r","g","e">> (*  RECENT large *),
    <<" ","a","l","l"," ","b","r","a","n","c","h"," ","n","a","m","e","s">> (*  all branch names *) >>

\* requests of 1..MaxParts of them
AmbiguityTexts == {From(t, 2) : t \in TextsOf(AmbiguityFragments, MaxParts)}

LogTexts == {
    <<"S","E","L","E","C","T"," ","*"," ","F","R","O","M"," ","c","u","s","t","o","m","e","r","s">> (* SELECT * FROM customers *),
    <<"S","E","L","E","C","T"," ","*"," ","F","R","O","M"," ","c","u","s","t","o","m","e","r","s",";"," ","D","R","O","P"," ","T","A","B","L","E"," ","c","u","s","t","o","m","e","r","s",";">> (* SELECT * FROM customers; DROP TABLE customers; *),
    <<"S","E","L","E","C","T"," ","n","o","t","h","i","n","g"," ","F","R","O","M"," ","n","o","w","h","e","r","e">> (* SELECT nothing FROM nowhere *),
    <<"U","P","D","A","T","E"," ","a","c","c","o","u","n","t","s"," ","S","E","T"," ","s","t","a","t","u","s"," ","="," ","'","x","'">> (* UPDATE accounts SET status = 'x' *) }

UserInputs == {
    <<"s","h","o","w"," ","r","e","c","e","n","t"," ","t","r","a","n","s","a","c","t","i","o","n","s">> (* show recent transactions *),
    <<"w","h","a","t"," ","i","s"," ","t","h","e"," ","a","v","e","r","a","g","e"," ","s","a","l","a","r","y">> (* what is the average salary *),
    <<"l","i","s","t"," ","l","o","a","n","s"," ","b","y"," ","c","i","t","y">> (* list loans by city *) }

\* what the user may type into the clarification form, by question number:
\* nothing, or an answer to the first question
FormAnswers == { <<>>, << <<"l","a","s","t"," ","m","o","n","t","h">> (* last month *) >> }

\* what llm.invoke may return ...
LLMResponses == {
    <<"S","E","L","E","C","T"," ","*"," ","F","R","O","M"," ","c","u","s","t","o","m","e","r","s">> (* SELECT * FROM customers *),
    <<Backtick,Backtick,Backtick,"s","q","l","\n","S","E","L","E","C","T"," ","d","a","t","e",","," ","a","m","o","u","n","t"," ","F","R","O","M"," ","t","r","a","n","s","a","c","t","i","o","n","s"," ","O","R","D","E","R"," ","B","Y"," ","d","a","t","e"," ","D","E","S","C",";","\n",Backtick,Backtick,Backtick>>,
    <<"S","E","L","E","C","T"," ","*"," ","F","R","O","M"," ","c","u","s","t","o","m","e","r","s",";","D","R","O","P"," ","T","A","B","L","E"," ","c","u","s","t","o","m","e","r","s">> (* SELECT * FROM customers;DROP TABLE customers *),
    <<"S","E","L","E","C","T"," ","*"," ","F","R","O","M"," ","c","u","s","t","o","m","e","r","s"," ","W","H","E","R","E"," ","a","d","d","r","e","s","s"," ","L","I","K","E"," ","'","%","L","i","m","i","t","e","d","%","'">> (* SELECT * FROM customers WHERE address LIKE '%Limited%' *),
    <<"I"," ","c","a","n","n","o","t"," ","a","n","s","w","e","r"," ","t","h","a","t">> (* I cannot answer that *) }

\* ... or raise
LLMErrors == {
    <<"4","2","9"," ","Y","o","u"," ","e","x","c","e","e","d","e","d"," ","y","o","u","r"," ","c","u","r","r","e","n","t"," ","q","u","o","t","a">> (* 429 You exceeded your current quota *),
    <<"C","o","n","n","e","c","t","i","o","n"," ","r","e","s","e","t"," ","b","y"," ","p","e","e","r">> (* Connection reset by peer *) }

\* the browser sessions that share the cached agent and validator
Callers == {"s1", "s2"}

\* what llm.invoke returns to them
SharedResponses == {
    <<"S","E","L","E","C","T"," ","*"," ","F","R","O","M"," ","c","u","s","t","o","m","e","r","s">> (* SELECT * FROM customers *),
    <<"I"," ","c","a","n","n","o","t"," ","a","n","s","w","e","r"," ","t","h","a","t">> (* I cannot answer that *) }

\* sqlite in validate_and_execute: rows, or an exception
AgentExecOutcomes == {"rows", "error"}

----------------------------------------------------------------------------
(* DatabaseManager.get_connection                                          *)

\* get_connection(self, retries: int = 3, delay: float = 1.0)
DefaultRetries == 3
DefaultDelay == 1

\* the loop of get_connection with linear waits: delay * 2 * attempt
RECURSIVE get_connection_linear_backoff_loop(_, _, _, _, _)
get_connection_linear_backoff_loop(retries, delay, failures, attempt, slept) ==
    IF attempt < retries
    THEN IF attempt < failures
         THEN get_connection_linear_backoff_loop(retries, delay, failures, attempt + 1,
                                  Append(slept, delay * 2 * attempt))
         ELSE [returned |-> TRUE, attempts |-> attempt + 1, slept |-> slept]
    ELSE [returned |-> FALSE, attempts |-> attempt, slept |-> slept,
          error |-> <<"F","a","i","l","e","d"," ","t","o"," ","c","o","n","n","e","c","t"," ","t","o"," ","d","a","t","a","b","a","s","e"," ","a","f","t","e","r"," ">> (* Failed to connect to database after  *) \o << DigitChars[retries + 1] >>
                    \o <<" ","a","t","t","e","m","p","t","s",".">> (*  attempts. *)]

\* the loop of get_connection when sqlite3.connect raises OperationalError on
\* its first `failures` calls: each failed attempt is followed by a sleep of
\* delay * 2 ** attempt; the result says whether a connection was returned,
\* how many times connect was called and the sleeps made, in order
RECURSIVE get_connection_loop(_, _, _, _, _)
get_connection_loop(retries, delay, failures, attempt, slept) ==
    IF attempt < retries
    THEN IF attempt < failures
         THEN get_connection_loop(retries, delay, failures, attempt + 1,
                                  Append(slept, delay * (2 ^ attempt)))
         ELSE [returned |-> TRUE, attempts |-> attempt + 1, slept |-> slept]
    ELSE [returned |-> FALSE, attempts |-> attempt, slept |-> slept,
          error |-> <<"F","a","i","l","e","d"," ","t","o"," ","c","o","n","n","e","c","t"," ","t","o"," ","d","a","t","a","b","a","s","e"," ","a","f","t","e","r"," ">> (* Failed to connect to database after  *) \o << DigitChars[retries + 1] >>
                    \o <<" ","a","t","t","e","m","p","t","s",".">> (*  attempts. *)]

get_connection_linear_backoff(retries, delay, failures) ==
    get_connection_linear_backoff_loop(retries, delay, failures, 0, <<>>)

get_connection(retries, delay, failures) == get_connection_loop(retries, delay, failures, 0, <<>>)

\* DatabaseManager.execute_query: rows, no rows, the query fails, no connection
DbOutcomes == {"rows", "empty", "query_error", "connect_error"}

\* how many times in a row sqlite3.connect may fail before it would succeed
MaxFailures == 3
ConnectFailures == 0..MaxFailures

\* the runs of execute_query: the outcomes above, with the failed connection
\* attempts varied on the run that returns rows
DbRuns ==
    {[outcome |-> "rows", failures |-> f] : f \in ConnectFailures}
    \cup {[outcome |-> o, failures |-> 0] : o \in {"empty", "query_error"}}
    \cup {[outcome |-> "connect_error", failures |-> MaxFailures]}

\* what the database raised in the last two cases (read_sql_query, get_connection)
DbErrors == [query_error |-> <<"d","a","t","a","b","a","s","e"," ","i","s"," ","l","o","c","k","e","d">> (* database is locked *),
             connect_error |-> <<"F","a","i","l","e","d"," ","t","o"," ","c","o","n","n","e","c","t"," ","t","o"," ","d","a","t","a","b","a","s","e"," ","a","f","t","e","r"," ","3"," ","a","t","t","e","m","p","t","s",".">> (* Failed to connect to database after 3 attempts. *)]

----------------------------------------------------------------------------
(* State                                                                   *)

VARIABLES
    pc,                   \* where handle_user_query stands: idle, or the call it waits for
    turns,                \* fresh turns started
    user_input,           \* the turn's request
    context,              \* the turn's context (None, or process_clarified_query's dict)
    sql_result,           \* get_sql_from_nl's return value
    sql,                  \* the query text in flight
    response,             \* process_query's return value
    conversation_history, \* GeminiAgent.conversation_history
    queries_processed,    \* GeminiAgent.token_usage_stats["queries_processed"]
    validation_level,     \* SQLValidator.validation_level
    validation_log,       \* SQLValidator.validation_log
    last_query_result,    \* st.session_state["last_query_result"]
    query_results,        \* st.session_state["query_results"]
    calls,                \* the turn's calls of generator, validator and executors, in order
    v_sql,                \* the text a validator under test is given
    v_returns,            \* what its validate_query calls were given and returned, in order
    c_in,                 \* the candidate text a corrector under test is given
    c_out,                \* the results of correcting it once, twice, ...
    a_in,                 \* the request text a classifier under test is given
    a_ctx,                \* the context it is given
    a_out,                \* what check_ambiguity returned
    sessions              \* callers of one shared agent and validator: where each stands

vars == << pc, turns, user_input, context, sql_result, sql, response, conversation_history,
           queries_processed, validation_level, validation_log, last_query_result,
           query_results, calls, v_sql, v_returns, c_in, c_out, a_in, a_ctx, a_out,
           sessions >>

agentVars == << conversation_history, queries_processed >>
appVars == << pc, turns, user_input, context, sql_result, sql, response, last_query_result, query_results, calls >>
validatorVars == << validation_level, validation_log >>
correctVars == << c_in, c_out >>
ambiguityVars == << a_in, a_ctx, a_out >>
testVars == << v_sql, v_returns, correctVars, ambiguityVars, sessions >>

\* the state after construction: GeminiAgent.__init__, SQLValidator.__init__, session state
InitPipeline ==
    /\ pc = "idle"
    /\ turns = 0
    /\ user_input = None
    /\ context = None
    /\ sql_result = None
    /\ sql = None
    /\ response = None
    /\ conversation_history = <<>>
    /\ queries_processed = 0
    /\ validation_log = <<>>
    /\ last_query_result = None
    /\ query_results = <<>>
    /\ calls = <<>>

InitCorrectIdle ==
    /\ c_in = None
    /\ c_out = <<>>

InitAmbiguityIdle ==
    /\ a_in = None
    /\ a_ctx = None
    /\ a_out = None

\* a caller before its first turn; history, counted, audit and logged record
\* what the caller itself has written to the shared objects
NewSession ==
    [pc |-> "idle", turns |-> 0, response_text |-> None, sql |-> None, read |-> 0,
     history |-> {}, counted |-> 0, audit |-> <<>>, logged |-> <<>>]

InitSessionsIdle == sessions = [c \in Callers |-> NewSession]

InitTests ==
    /\ v_sql = None
    /\ v_returns = <<>>
    /\ InitCorrectIdle
    /\ InitAmbiguityIdle
    /\ InitSessionsIdle

\* the app builds its validator with the default level
Init ==
    /\ InitPipeline
    /\ validation_level = <<"s","t","r","i","c","t">> (* strict *)
    /\ InitTests

----------------------------------------------------------------------------
(* The pipeline: BankingApp.handle_user_query around GeminiAgent.process_query *)

\* handle_user_query stores a result and returns
FinishTurn(ui, result) ==
    /\ last_query_result' = result
    /\ query_results' = Append(query_results, [query |-> ui] @@ result)
    /\ pc' = "idle"

\* process_query returns an error response; handle_user_query takes its error branch
AgentError(ui, history, resp) ==
    /\ response' = resp
    /\ sql' = resp.sql
    /\ conversation_history' = Append(history, [agent |-> resp])
    /\ FinishTurn(ui, AgentErrorResult(resp.explanation))

\* process_query once get_sql_from_nl has returned (confidence in tenths)
AfterGeneration(ui, history, result) ==
    /\ sql_result' = result
    /\ IF result.type = "success"
       THEN \E validated_sql \in {validate_sql(result.sql)} :
            IF validated_sql.type = "success"
            THEN /\ pc' = "agent_executing"
                 /\ sql' = validated_sql.sql
                 /\ response' = None
                 /\ conversation_history' = history
                 /\ UNCHANGED << last_query_result, query_results >>
            ELSE AgentError(ui, history,
                            [type |-> "error", sql |-> result.sql,
                             explanation |-> validated_sql.message,
                             confidence |-> 5, result |-> None])
       ELSE AgentError(ui, history,
                       [type |-> "error", sql |-> None, explanation |-> result.message,
                        confidence |-> 0, result |-> None])

\* handle_user_query(ui, ctx) up to the first call that leaves the process:
\* the ambiguity check, then get_sql_from_nl up to llm.invoke
\* (stored: the session's last_query_result when the call is made; clarified:
\* the caller is process_clarified_query, which strips a clarification result
\* of its type and questions)
StartTurn(ui, ctx, stored, clarified) ==
    /\ user_input' = ui
    /\ context' = ctx
    /\ \E history \in {Append(conversation_history, [user |-> ui])},
          ambiguity_check \in {check_ambiguity(ui, ctx)} :
           IF needs_clarification(ambiguity_check)
           THEN LET resp == [type |-> "clarification_needed", sql |-> None,
                             explanation |-> ambiguity_check.explanation,
                             follow_up_questions |-> ambiguity_check.questions,
                             confidence |-> 3, result |-> None]
                IN  /\ response' = resp
                    /\ sql' = None
                    /\ sql_result' = None
                    /\ conversation_history' = Append(history, [agent |-> resp])
                    /\ calls' = <<>>
                    /\ \E result \in {[type |-> "clarification_needed",
                                        explanation |-> resp.explanation,
                                        follow_up_questions |-> resp.follow_up_questions,
                                        confidence |-> resp.confidence,
                                        original_query |-> ui]} :
                        /\ last_query_result' =
                              IF clarified
                              THEN [k \in DOMAIN result \ {"type", "follow_up_questions"} |-> result[k]]
                              ELSE result
                        /\ query_results' = Append(query_results, [query |-> ui] @@ result)
                        /\ pc' = "idle"
           ELSE IF compress_context_raises(ctx)
           THEN /\ calls' = <<>>
                /\ \E result \in {FailedSQL(ui, SliceErrorText)} : AfterGeneration(ui, history, result)
           ELSE /\ pc' = "generating"
                /\ calls' = << [op |-> "llm.invoke"] >>
                /\ conversation_history' = history
                /\ sql_result' = None
                /\ sql' = None
                /\ response' = None
                /\ last_query_result' = stored
                /\ UNCHANGED query_results

\* the user submits a request: handle_user_query(user_input, context=None)
SubmitQuery(ui) ==
    /\ pc = "idle"
    /\ turns < MaxTurns
    /\ turns' = turns + 1
    /\ StartTurn(ui, None, last_query_result, FALSE)
    /\ UNCHANGED << queries_processed, validatorVars, testVars >>

\* the user submits the clarification form: process_clarified_query, which
\* deletes the stored result before it calls handle_user_query
SubmitClarified(answers) ==
    /\ pc = "idle"
    /\ "type" \in DOMAIN last_query_result
    /\ last_query_result.type = "clarification_needed"
    /\ \E original_query \in {last_query_result.original_query},
          clarifications \in {Clarifications(last_query_result.follow_up_questions, answers)} :
           /\ original_query # <<>>
           /\ \E enhanced_query \in {EnhancedQuery(original_query, clarifications)} :
                StartTurn(enhanced_query,
                          ClarifiedContext(original_query, clarifications, Cardinality(DOMAIN clarifications)),
                          None, TRUE)
    /\ UNCHANGED << turns, queries_processed, validatorVars, testVars >>

\* llm.invoke returns: log_token_usage, cleaning, correction, validate_sql
LLMReturns(response_text) ==
    /\ pc = "generating"
    /\ queries_processed' = queries_processed + 1
    /\ \E result \in {GeneratedSQL(response_text)} :
            AfterGeneration(user_input, conversation_history, result)
    /\ calls' = [calls EXCEPT ![Len(calls)] = @ @@ [returned |-> response_text]]
    /\ UNCHANGED << turns, user_input, context, validatorVars, testVars >>

\* llm.invoke raises: the except branch of get_sql_from_nl, then validate_sql
LLMRaises(e) ==
    /\ pc = "generating"
    /\ \E result \in {FailedSQL(user_input, e)} :
            AfterGeneration(user_input, conversation_history, result)
    /\ calls' = [calls EXCEPT ![Len(calls)] = @ @@ [raised |-> e]]
    /\ UNCHANGED << turns, user_input, context, queries_processed, validatorVars, testVars >>

\* validate_and_execute runs the text on the database; process_query returns
\* its success response and handle_user_query goes on to the validator
AgentExecutes(outcome) ==
    /\ pc = "agent_executing"
    /\ calls' = Append(calls, [op |-> "validate_and_execute", sql |-> sql])
    /\ LET exec_result == IF outcome = "rows"
                          THEN [result |-> << "row" >>, explanation |-> <<"E","x","e","c","u","t","e","d"," ","S","Q","L",":"," ">> (* Executed SQL:  *) \o sql]
                          ELSE [result |-> None, explanation |-> <<"n","o"," ","s","u","c","h"," ","c","o","l","u","m","n",":"," ","d","a","t","e">> (* no such column: date *)]
           resp == [type |-> "success", sql |-> sql,
                    explanation |-> exec_result.explanation,
                    confidence |-> sql_result.confidence,
                    result |-> exec_result.result]
       IN  /\ response' = resp
           /\ conversation_history' = Append(conversation_history, [agent |-> resp])
    /\ pc' = "validating"
    /\ UNCHANGED << turns, user_input, context, sql_result, sql, queries_processed,
                    last_query_result, query_results, validatorVars, testVars >>

\* sql_validator.validate_query(sql) in handle_user_query, and what follows it
\* (each value is bound once: the fix steps, then EXPLAIN's answer, then the verdict)
ValidatorRuns ==
    /\ pc = "validating"
    /\ \E fixed \in {ApplyFixes(sql)} :
       \E explain \in ExplainOutcomes :
       \E validation_result \in {ValidationResult(fixed, validation_level, explain)} :
       \E checked \in {IF "sql" \in DOMAIN validation_result THEN validation_result.sql ELSE sql} :
           /\ validation_log' = _log_attempt(validation_log, fixed, validation_result)
           /\ calls' = Append(calls, [op |-> "validate_query", sql |-> sql, result |-> validation_result])
           /\ sql' = checked
           /\ IF ~is_safe(validation_result)
              THEN FinishTurn(user_input,
                              [error |-> <<"S","e","c","u","r","i","t","y"," ","v","a","l","i","d","a","t","i","o","n"," ","f","a","i","l","e","d",":"," ">> (* Security validation failed:  *) \o Get(validation_result, "message", <<"U","n","k","n","o","w","n"," ","v","a","l","i","d","a","t","i","o","n"," ","e","r","r","o","r">> (* Unknown validation error *)),
                               suggestion |-> <<"P","l","e","a","s","e"," ","r","e","p","h","r","a","s","e"," ","y","o","u","r"," ","q","u","e","r","y"," ","t","o"," ","a","v","o","i","d"," ","p","o","t","e","n","t","i","a","l","l","y"," ","h","a","r","m","f","u","l"," ","S","Q","L"," ","p","a","t","t","e","r","n","s",".">> (* Please rephrase your query to avoid potentially harmful SQL patterns. *),
                               sql |-> checked])
              ELSE /\ pc' = "executing"
                   /\ UNCHANGED << last_query_result, query_results >>
    /\ UNCHANGED << turns, user_input, context, sql_result, response, agentVars,
                    validation_level, testVars >>

\* what validate_query may raise instead of returning (any exception of its body)
ValidatorErrors == { <<"m","a","x","i","m","u","m"," ","r","e","c","u","r","s","i","o","n"," ","d","e","p","t","h"," ","e","x","c","e","e","d","e","d">> (* maximum recursion depth exceeded *) }

\* an except branch that ends the turn
OnValidationError_fail_closed == "idle"

\* where handle_user_query stands after `except Exception as validation_error`:
\* it logs a warning and falls through to the execution block
OnValidationError == "executing"

\* sql_validator.validate_query(sql) raises inside handle_user_query
ValidatorRaises(validation_error) ==
    /\ pc = "validating"
    /\ calls' = Append(calls, [op |-> "validate_query", sql |-> sql, raised |-> validation_error])
    /\ pc' = OnValidationError
    /\ UNCHANGED << turns, user_input, context, sql_result, sql, response, agentVars,
                    last_query_result, query_results, validatorVars, testVars >>

\* db_manager.execute_query(sql) in handle_user_query, and the result it stores
AppExecutes(outcome, failures) ==
    /\ pc = "executing"
    /\ \E connection \in {get_connection(DefaultRetries, DefaultDelay, failures)} :
        /\ (outcome = "connect_error") <=> ~connection.returned
        /\ calls' = Append(calls, [op |-> "execute_query", sql |-> sql, outcome |-> outcome,
                                    connection |-> connection]
                                    @@ (IF outcome = "query_error" THEN [error |-> DbErrors[outcome]]
                                        ELSE IF outcome = "connect_error" THEN [error |-> connection.error]
                                        ELSE <<>>))
    /\ FinishTurn(user_input,
          IF outcome = "rows"
          THEN [sql |-> sql, data |-> << "row" >>, explanation |-> response.explanation,
                confidence |-> response.confidence, row_count |-> 1, status |-> "success"]
          ELSE IF outcome \in {"empty", "query_error"}
          THEN [sql |-> sql, data |-> <<>>, explanation |-> response.explanation,
                message |-> <<"Q","u","e","r","y"," ","e","x","e","c","u","t","e","d"," ","s","u","c","c","e","s","s","f","u","l","l","y"," ","b","u","t"," ","r","e","t","u","r","n","e","d"," ","n","o"," ","r","e","s","u","l","t","s",".">> (* Query executed successfully but returned no results. *),
                row_count |-> 0, status |-> "success"]
          ELSE [error |-> <<"D","a","t","a","b","a","s","e"," ","e","x","e","c","u","t","i","o","n"," ","f","a","i","l","e","d",":"," ","c","a","n","n","o","t"," ","a","c","c","e","s","s"," ","l","o","c","a","l"," ","v","a","r","i","a","b","l","e"," ","'","c","o","n","n","'"," ","w","h","e","r","e"," ","i","t"," ","i","s"," ","n","o","t"," ","a","s","s","o","c","i","a","t","e","d"," ","w","i","t","h"," ","a"," ","v","a","l","u","e">> (* Database execution failed: cannot access local variable 'conn' where it is not associated with a value *),
                sql |-> sql,
                suggestion |-> <<"P","l","e","a","s","e"," ","c","h","e","c","k"," ","y","o","u","r"," ","q","u","e","r","y"," ","s","y","n","t","a","x"," ","o","r"," ","t","r","y"," ","a"," ","d","i","f","f","e","r","e","n","t"," ","a","p","p","r","o","a","c","h",".">> (* Please check your query syntax or try a different approach. *),
                status |-> "error"])
    /\ UNCHANGED << turns, user_input, context, sql_result, sql, response, agentVars,
                    validatorVars, testVars >>

Next ==
    \/ \E ui \in UserInputs : SubmitQuery(ui)
    \/ \E answers \in FormAnswers : SubmitClarified(answers)
    \/ \E response_text \in LLMResponses : LLMReturns(response_text)
    \/ \E e \in LLMErrors : LLMRaises(e)
    \/ \E outcome \in AgentExecOutcomes : AgentExecutes(outcome)
    \/ ValidatorRuns
    \/ \E validation_error \in ValidatorErrors : ValidatorRaises(validation_error)
    \/ \E run \in DbRuns : AppExecutes(run.outcome, run.failures)

Spec == Init /\ [][Next]_vars

----------------------------------------------------------------------------
(* A validator on its own: validate_query applied to drawn texts           *)

\* validate_query(q): the fix steps, the three checks, one log entry; the
\* record keeps the checks that ran and, when the EXPLAIN probe was issued,
\* what sqlite answered
ValidateCall(q) ==
    /\ \E fixed \in {ApplyFixes(q)} :
       \E explain \in ExplainOutcomes :
       \E result \in {ValidationResult(fixed, validation_level, explain)} :
           /\ validation_log' = _log_attempt(validation_log, fixed, result)
           /\ \E ran \in {ChecksRun(fixed, validation_level, explain)} :
                v_returns' = Append(v_returns,
                                    [sql |-> q, result |-> result, ran |-> ran]
                                    @@ (IF Len(ran) >= 2 THEN [explain |-> explain] ELSE <<>>))
    /\ UNCHANGED << appVars, agentVars, validation_level, v_sql, correctVars, ambiguityVars, sessions >>

\* one call, on a text of the safety family, at any level
InitSafety ==
    /\ InitPipeline
    /\ validation_level \in Levels
    /\ v_sql \in SafetyTexts
    /\ v_returns = <<>>
    /\ InitCorrectIdle
    /\ InitAmbiguityIdle
    /\ InitSessionsIdle

NextSafety == v_returns = <<>> /\ ValidateCall(v_sql)

SpecSafety == InitSafety /\ [][NextSafety]_vars

\* up to MaxCalls calls of one validator, at any level
InitLog ==
    /\ InitPipeline
    /\ validation_level \in Levels
    /\ InitTests

NextLog == Len(v_returns) < MaxCalls /\ \E q \in LogTexts : ValidateCall(q)

SpecLog == InitLog /\ [][NextLog]_vars

----------------------------------------------------------------------------
(* The correction steps on their own                                       *)

\* what the pipeline does to a candidate statement between extraction and the
\* checks: the agent's column fix and LIMIT, validate_sql's strip, the fix steps
correct(q) == ApplyFixes(Strip(AgentCorrect(q)))

InitCorrect ==
    /\ InitPipeline
    /\ validation_level = <<"s","t","r","i","c","t">> (* strict *)
    /\ v_sql = None
    /\ v_returns = <<>>
    /\ c_in \in CorrectTexts
    /\ c_out = <<>>
    /\ InitAmbiguityIdle
    /\ InitSessionsIdle

\* correct the text, or the last result, once more
Correct ==
    /\ Len(c_out) < MaxCorrections
    /\ c_out' = Append(c_out, correct(IF c_out = <<>> THEN c_in ELSE c_out[Len(c_out)]))
    /\ UNCHANGED << appVars, agentVars, validatorVars, v_sql, v_returns, c_in, ambiguityVars, sessions >>

NextCorrect == Correct

SpecCorrect == InitCorrect /\ [][NextCorrect]_vars

----------------------------------------------------------------------------
(* The ambiguity check on its own                                          *)

InitAmbiguity ==
    /\ InitPipeline
    /\ validation_level = <<"s","t","r","i","c","t">> (* strict *)
    /\ v_sql = None
    /\ v_returns = <<>>
    /\ InitCorrectIdle
    /\ a_in \in AmbiguityTexts
    /\ a_ctx \in {None, ClarifiedContext(a_in, <<>>, 0)}
    /\ a_out = None
    /\ InitSessionsIdle

\* check_ambiguity(a_in, a_ctx)
Classify ==
    /\ a_out = None
    /\ a_out' = check_ambiguity(a_in, a_ctx)
    /\ UNCHANGED << appVars, agentVars, validatorVars, v_sql, v_returns, correctVars, a_in, a_ctx, sessions >>

NextAmbiguity == Classify

SpecAmbiguity == InitAmbiguity /\ [][NextAmbiguity]_vars

----------------------------------------------------------------------------
(* Two callers on the cached GeminiAgent and SQLValidator                  *)

\* the app's validator has the default level; no turn has been made
InitShared ==
    /\ InitPipeline
    /\ validation_level = <<"s","t","r","i","c","t">> (* strict *)
    /\ InitTests

\* caller c submits ui: process_query appends the request to the agent's
\* conversation_history, checks ambiguity and either returns the
\* clarification response (appending it) or goes on to llm.invoke
SessionSubmits(c, ui) ==
    /\ sessions[c].pc = "idle"
    /\ sessions[c].turns < MaxTurns
    /\ \E ambiguity_check \in {check_ambiguity(ui, None)}, n \in {Len(conversation_history)} :
         IF needs_clarification(ambiguity_check)
         THEN /\ conversation_history' =
                    conversation_history \o
                    << [user |-> ui],
                       [agent |-> [type |-> "clarification_needed", sql |-> None,
                                   explanation |-> ambiguity_check.explanation,
                                   follow_up_questions |-> ambiguity_check.questions,
                                   confidence |-> 3, result |-> None]] >>
              /\ sessions' = [sessions EXCEPT ![c].turns = @ + 1,
                                              ![c].history = @ \cup {n + 1, n + 2}]
         ELSE /\ conversation_history' = Append(conversation_history, [user |-> ui])
              /\ sessions' = [sessions EXCEPT ![c].turns = @ + 1,
                                              ![c].pc = "generating",
                                              ![c].history = @ \cup {n + 1}]
    /\ UNCHANGED << appVars, queries_processed, validatorVars, v_sql, v_returns, correctVars, ambiguityVars >>

\* llm.invoke returns to caller c; log_token_usage reads the counter it is
\* about to add one to (the += of token_usage_stats is a read, then a write)
SessionReadsCounter(c, response_text) ==
    /\ sessions[c].pc = "generating"
    /\ sessions' = [sessions EXCEPT ![c].pc = "counting",
                                    ![c].response_text = response_text,
                                    ![c].read = queries_processed]
    /\ UNCHANGED << appVars, agentVars, validatorVars, v_sql, v_returns, correctVars, ambiguityVars >>

\* log_token_usage writes the counter back; get_sql_from_nl and process_query
\* run to their end, appending the response to conversation_history
SessionWritesCounter(c, outcome) ==
    /\ sessions[c].pc = "counting"
    /\ queries_processed' = sessions[c].read + 1
    /\ \E resp \in {ProcessResponse(GeneratedSQL(sessions[c].response_text), outcome)} :
         /\ conversation_history' = Append(conversation_history, [agent |-> resp])
         /\ sessions' = [sessions EXCEPT ![c].pc = IF resp.type = "success" THEN "validating" ELSE "idle",
                                         ![c].sql = resp.sql,
                                         ![c].counted = @ + 1,
                                         ![c].history = @ \cup {Len(conversation_history) + 1}]
    /\ UNCHANGED << appVars, validatorVars, v_sql, v_returns, correctVars, ambiguityVars >>

\* handle_user_query of caller c calls validate_query on the shared validator,
\* which appends one entry to validation_log; what follows (execute_query,
\* the result stored in the caller's own session state) touches neither the
\* agent nor the validator
SessionValidates(c) ==
    /\ sessions[c].pc = "validating"
    /\ \E fixed \in {ApplyFixes(sessions[c].sql)} :
       \E explain \in ExplainOutcomes :
       \E result \in {ValidationResult(fixed, validation_level, explain)} :
           /\ validation_log' = _log_attempt(validation_log, fixed, result)
           /\ sessions' = [sessions EXCEPT ![c].pc = "idle",
                                           ![c].audit = Append(@, Len(validation_log) + 1),
                                           ![c].logged = Append(@, [query |-> fixed, result |-> result])]
    /\ UNCHANGED << appVars, agentVars, validation_level, v_sql, v_returns, correctVars, ambiguityVars >>

NextShared ==
    \/ \E c \in Callers, ui \in UserInputs : SessionSubmits(c, ui)
    \/ \E c \in Callers, response_text \in SharedResponses : SessionReadsCounter(c, response_text)
    \/ \E c \in Callers, outcome \in AgentExecOutcomes : SessionWritesCounter(c, outcome)
    \/ \E c \in Callers : SessionValidates(c)

SpecShared == InitShared /\ [][NextShared]_vars

----------------------------------------------------------------------------
(* The correction steps of validate_query, each on its own (SpecRules)     *)

\* pieces of statements over one table and over several, with bare and
\* qualified ambiguous columns, misspelled and well-spelled schema names,
\* and with and without a table, a column, a wildcard, an aggregate call
RuleFragments == <<
    <<" ","i","d"," ","F","R","O","M"," ","c","u","s","t","o","m","e","r","s">> (*  id FROM customers *),
    <<" ","s","t","a","t","u","s"," ","F","R","O","M"," ","a","c","c","o","u","n","t","s">> (*  status FROM accounts *),
    <<" ","t",".","t","y","p","e"," ","F","R","O","M"," ","t","r","a","n","s","a","c","t","i","o","n","s"," ","t"," ","J","O","I","N"," ","a","c","c","o","u","n","t","s"," ","a"," ","O","N"," ","t",".","a","c","c","o","u","n","t","_","i","d"," ","="," ","a",".","i","d">> (*  t.type FROM transactions t JOIN accounts a ON t.account_id = a.id *),
    <<" ","t","y","p","e"," ","F","R","O","M"," ","t","r","a","n","s","a","c","t","i","o","n","s"," ","t"," ","J","O","I","N"," ","a","c","c","o","u","n","t","s"," ","a"," ","O","N"," ","t",".","a","c","c","o","u","n","t","_","i","d"," ","="," ","a",".","i","d">> (*  type FROM transactions t JOIN accounts a ON t.account_id = a.id *),
    <<" ","a",".","i","d",","," ","t","y","p","e"," ","F","R","O","M"," ","a","c","c","o","u","n","t","s"," ","a",","," ","t","r","a","n","s","a","c","t","i","o","n","s"," ","t">> (*  a.id, type FROM accounts a, transactions t *),
    <<" ","W","H","E","R","E"," ","t","y","p","e"," ","="," ","'","x","'">> (*  WHERE type = 'x' *),
    <<" ","W","H","E","R","E"," ","t",".","s","t","a","t","u","s"," ","="," ","'","x","'">> (*  WHERE t.status = 'x' *),
    <<" ","*"," ","F","R","O","M"," ","e","m","p","l","o","y","e","e","s">> (*  * FROM employees *),
    <<" ","e","m","p","l","o","y","e","e","_","i","d"," ","F","R","O","M"," ","b","r","a","n","c","h","e","s">> (*  employee_id FROM branches *),
    <<" ","*"," ","F","R","O","M"," ","c","o","s","t","u","m","e","r","s">> (*  * FROM costumers *),
    <<" ","*"," ","F","R","O","M"," ","T","r","a","s","a","c","t","i","o","n","s">> (*  * FROM Trasactions *),
    <<" ","n","a","m","e"," ","F","R","O","M"," ","e","m","p","l","o","y","e","s">> (*  name FROM employes *),
    <<" ","'","p","a","i","d","'"," ","F","R","O","M"," ","c","u","s","t","o","m","e","r","s">> (*  'paid' FROM customers *),
    <<" ","1"," ","F","R","O","M"," ","b","r","a","n","c","h","e","s">> (*  1 FROM branches *),
    <<" ","m","a","x","(","1",")">> (*  max(1) *),
    <<" ","*"," ","F","R","O","M"," ","l","o","a","n","s">> (*  * FROM loans *) >>

RuleTexts == {<<"S","E","L","E","C","T">> (* SELECT *) \o t : t \in TextsOf(RuleFragments, MaxParts)}

InitRules ==
    /\ InitPipeline
    /\ validation_level = <<"s","t","r","i","c","t">> (* strict *)
    /\ v_sql = None
    /\ v_returns = <<>>
    /\ c_in \in RuleTexts
    /\ c_out = <<>>
    /\ InitAmbiguityIdle
    /\ InitSessionsIdle

\* each correction step of validate_query applied to the submitted text
ApplyFixSteps ==
    /\ c_out = <<>>
    /\ c_out' = << Fix1(c_in), Fix2(c_in), Fix3(c_in), Fix4(c_in), Fix5(c_in) >>
    /\ UNCHANGED << appVars, agentVars, validatorVars, v_sql, v_returns, c_in, ambiguityVars, sessions >>

\* the schema-reference check applied to the submitted text
ValidateSchema ==
    /\ v_returns = <<>>
    /\ v_returns' = << [op |-> "_validate_schema", sql |-> c_in, result |-> _validate_schema(c_in)] >>
    /\ UNCHANGED << appVars, agentVars, validatorVars, v_sql, correctVars, ambiguityVars, sessions >>

NextRules == ApplyFixSteps \/ ValidateSchema

SpecRules == InitRules /\ [][NextRules]_vars

----------------------------------------------------------------------------
(* GeminiAgent.follow_up (SpecFollowUp)                                    *)

SYSTEM_PROMPT ==
    <<"E","x","p","e","r","t"," ","S","Q","L"," ","g","e","n","e","r","a","t","o","r"," ","f","o","r"," ","b","a","n","k","i","n","g"," ","D","B","."," ","C","o","n","v","e","r","t"," ","N","L"," ","t","o"," ","S","E","L","E","C","T"," ","q","u","e","r","i","e","s"," ","o","n","l","y",".","\n">> (* Expert SQL generator for banking DB. Convert NL to SELECT queries only.\n *) \o
    <<"\n">> (* \n *) \o
    <<"S","c","h","e","m","a"," ","(","u","s","e"," ","E","X","A","C","T"," ","n","a","m","e","s",")",":","\n">> (* Schema (use EXACT names):\n *) \o
    <<"c","u","s","t","o","m","e","r","s","(","i","d",",","e","m","a","i","l",",","p","h","o","n","e",",","a","d","d","r","e","s","s",",","f","i","r","s","t","_","n","a","m","e",",","l","a","s","t","_","n","a","m","e",",","d","a","t","e","_","o","f","_","b","i","r","t","h",",","g","e","n","d","e","r",",","n","a","t","i","o","n","a","l","_","i","d",",","c","r","e","a","t","e","d","_","a","t",",","u","p","d","a","t","e","d","_","a","t",",","b","r","a","n","c","h","_","i","d",")","\n">> (* customers(id,email,phone,address,first_name,last_name,date_of_birth,gender,national_id,created_at,updated_at,branch_id)\n *) \o
    <<"a","c","c","o","u","n","t","s","(","i","d",",","c","u","s","t","o","m","e","r","_","i","d",",","a","c","c","o","u","n","t","_","n","u","m","b","e","r",",","t","y","p","e",",","b","a","l","a","n","c","e",",","o","p","e","n","e","d","_","a","t",",","i","n","t","e","r","e","s","t","_","r","a","t","e",",","s","t","a","t","u","s",",","b","r","a","n","c","h","_","i","d",",","c","r","e","a","t","e","d","_","a","t",",","u","p","d","a","t","e","d","_","a","t",")","\n">> (* accounts(id,customer_id,account_number,type,balance,opened_at,interest_rate,status,branch_id,created_at,updated_at)\n *) \o
    <<"t","r","a","n","s","a","c","t","i","o","n","s","(","i","d",",","a","c","c","o","u","n","t","_","i","d",",","t","r","a","n","s","a","c","t","i","o","n","_","d","a","t","e",",","a","m","o","u","n","t",",","t","y","p","e",",","d","e","s","c","r","i","p","t","i","o","n",",","s","t","a","t","u","s",",","c","r","e","a","t","e","d","_","a","t",",","u","p","d","a","t","e","d","_","a","t",",","e","m","p","l","o","y","e","e","_","i","d",")","\n">> (* transactions(id,account_id,transaction_date,amount,type,description,status,created_at,updated_at,employee_id)\n *) \o
    <<"b","r","a","n","c","h","e","s","(","i","d",",","n","a","m","e",",","a","d","d","r","e","s","s",",","c","i","t","y",",","s","t","a","t","e",",","z","i","p","_","c","o","d","e",",","m","a","n","a","g","e","r","_","i","d",",","c","r","e","a","t","e","d","_","a","t",",","u","p","d","a","t","e","d","_","a","t",")","\n">> (* branches(id,name,address,city,state,zip_code,manager_id,created_at,updated_at)\n *) \o
    <<"e","m","p","l","o","y","e","e","s","(","i","d",",","b","r","a","n","c","h","_","i","d",",","n","a","m","e",",","e","m","a","i","l",",","p","h","o","n","e",",","p","o","s","i","t","i","o","n",",","h","i","r","e","_","d","a","t","e",",","s","a","l","a","r","y",",","c","r","e","a","t","e","d","_","a","t",",","u","p","d","a","t","e","d","_","a","t",")","\n">> (* employees(id,branch_id,name,email,phone,position,hire_date,salary,created_at,updated_at)\n *) \o
    <<"\n">> (* \n *) \o
    <<"R","u","l","e","s",":","\n">> (* Rules:\n *) \o
    <<"1","."," ","S","E","L","E","C","T"," ","o","n","l","y",","," ","e","n","d"," ","w","i","t","h"," ","L","I","M","I","T"," ","1","0","0","0","\n">> (* 1. SELECT only, end with LIMIT 1000\n *) \o
    <<"2","."," ","U","s","e"," ","a","l","i","a","s","e","s",":"," ","c","(","c","u","s","t","o","m","e","r","s",")",","," ","a","(","a","c","c","o","u","n","t","s",")",","," ","t","(","t","r","a","n","s","a","c","t","i","o","n","s",")",","," ","e","(","e","m","p","l","o","y","e","e","s",")",","," ","b","(","b","r","a","n","c","h","e","s",")","\n">> (* 2. Use aliases: c(customers), a(accounts), t(transactions), e(employees), b(branches)\n *) \o
    <<"3","."," ","c","u","s","t","o","m","e","r","s",":"," ","f","i","r","s","t","_","n","a","m","e","+","l","a","s","t","_","n","a","m","e"," ","(","N","O","T"," ","n","a","m","e",")",","," ","e","m","p","l","o","y","e","e","s",":"," ","n","a","m","e"," ","c","o","l","u","m","n"," ","e","x","i","s","t","s","\n">> (* 3. customers: first_name+last_name (NOT name), employees: name column exists\n *) \o
    <<"4","."," ","D","a","t","e"," ","f","o","r","m","a","t",":"," ","Y","Y","Y","Y","-","M","M","-","D","D",","," ","u","s","e"," ","t","r","a","n","s","a","c","t","i","o","n","_","d","a","t","e"," ","f","o","r"," ","t","r","a","n","s","a","c","t","i","o","n","s","\n">> (* 4. Date format: YYYY-MM-DD, use transaction_date for transactions\n *) \o
    <<"5","."," ","J","O","I","N"," ","t","a","b","l","e","s"," ","w","h","e","n"," ","n","e","e","d","e","d",","," ","q","u","a","l","i","f","y"," ","a","m","b","i","g","u","o","u","s"," ","c","o","l","u","m","n","s"," ","(","t",".","t","y","p","e",","," ","a",".","t","y","p","e",","," ","e","t","c",".",")","\n">> (* 5. JOIN tables when needed, qualify ambiguous columns (t.type, a.type, etc.)\n *) \o
    <<"6","."," ","L","I","K","E"," ","w","i","t","h"," ","%"," ","f","o","r"," ","n","a","m","e"," ","s","e","a","r","c","h","e","s","\n">> (* 6. LIKE with % for name searches\n *)

Backslash == << "\\" >>

HasChar(s, c) == \E i \in 1..Len(s) : s[i] = c

\* s[lo..hi] with a backslash put before each character of special (a
\* newline is written n), by halves
RECURSIVE Escape(_, _, _, _)
Escape(s, special, lo, hi) ==
    IF \A i \in lo..hi : s[i] \notin special THEN SubSeq(s, lo, hi)
    ELSE IF lo = hi THEN Backslash \o << IF s[lo] = "\n" THEN "n" ELSE s[lo] >>
    ELSE Escape(s, special, lo, (lo + hi) \div 2) \o Escape(s, special, ((lo + hi) \div 2) + 1, hi)

\* repr(s) of a str: in double quotes when s has a single quote and no double
\* quote, else in single quotes; backslash, newline and the quote are escaped
ReprText(s) ==
    IF HasChar(s, "'") /\ ~HasChar(s, "\"")
    THEN << "\"" >> \o Escape(s, {"\\", "\n"}, 1, Len(s)) \o << "\"" >>
    ELSE << "'" >> \o Escape(s, {"\\", "\n", "'"}, 1, Len(s)) \o << "'" >>

\* repr of None or of a str
ReprValue(v) == IF v = None THEN <<"N","o","n","e">> (* None *) ELSE ReprText(v)

\* ', '.join(items)
RECURSIVE JoinComma(_, _)
JoinComma(items, k) ==
    IF k > Len(items) THEN <<>>
    ELSE IF k = Len(items) THEN items[k]
    ELSE items[k] \o <<","," ">> (* ,  *) \o JoinComma(items, k + 1)

\* repr of a list of str
ReprList(items) == <<"[">> (* [ *) \o JoinComma([k \in 1..Len(items) |-> ReprText(items[k])], 1) \o <<"]">> (* ] *)

\* the response types as text
TypeText == [clarification_needed |-> <<"c","l","a","r","i","f","i","c","a","t","i","o","n","_","n","e","e","d","e","d">> (* clarification_needed *),
             success |-> <<"s","u","c","c","e","s","s">> (* success *), error |-> <<"e","r","r","o","r">> (* error *)]

\* repr of a float given in tenths
ReprTenths(t) == << DigitChars[(t \div 10) + 1] >> \o <<".">> (* . *) \o << DigitChars[(t % 10) + 1] >>

\* repr of a response dict of process_query (no result rows)
ReprResponse(resp) ==
    <<"{","'","t","y","p","e","'",":"," ">> (* {'type':  *) \o ReprText(TypeText[resp.type])
    \o <<","," ","'","s","q","l","'",":"," ">> (* , 'sql':  *) \o ReprValue(resp.sql)
    \o <<","," ","'","e","x","p","l","a","n","a","t","i","o","n","'",":"," ">> (* , 'explanation':  *) \o ReprText(resp.explanation)
    \o (IF "follow_up_questions" \in DOMAIN resp
        THEN <<","," ","'","f","o","l","l","o","w","_","u","p","_","q","u","e","s","t","i","o","n","s","'",":"," ">> (* , 'follow_up_questions':  *) \o ReprList(resp.follow_up_questions) ELSE <<>>)
    \o <<","," ","'","c","o","n","f","i","d","e","n","c","e","'",":"," ">> (* , 'confidence':  *) \o ReprTenths(resp.confidence)
    \o <<","," ","'","r","e","s","u","l","t","'",":"," ","N","o","n","e","}">> (* , 'result': None} *)

\* repr of an entry of conversation_history
ReprEntry(e) ==
    IF "user" \in DOMAIN e THEN <<"{","'","u","s","e","r","'",":"," ">> (* {'user':  *) \o ReprText(e.user) \o <<"}">> (* } *)
    ELSE <<"{","'","a","g","e","n","t","'",":"," ">> (* {'agent':  *) \o ReprResponse(e.agent) \o <<"}">> (* } *)

\* the entries of the list from the k-th on, each as its repr, comma-separated
RECURSIVE ReprEntriesFrom(_, _)
ReprEntriesFrom(history, k) ==
    IF k > Len(history) THEN <<>>
    ELSE ReprEntry(history[k]) \o (IF k < Len(history) THEN <<","," ">> (* ,  *) ELSE <<>>)
         \o ReprEntriesFrom(history, k + 1)

\* str(self.conversation_history)
HistoryText(history) == <<"[">> (* [ *) \o ReprEntriesFrom(history, 1) \o <<"]">> (* ] *)

\* a prompt made of the previous turns and the question only
follow_up_prompt_without_system_prompt(question, history) ==
    <<"P","r","e","v","i","o","u","s",":"," ">> (* Previous:  *) \o HistoryText(history) \o <<"\n","Q",":"," ">> (* \nQ:  *) \o question \o <<"\n","A",":">> (* \nA: *)

\* follow_up: f"{self.SYSTEM_PROMPT}\nPrevious: {context['history']}\nQ: {user_input}\nA:"
follow_up_prompt(question, history) ==
    SYSTEM_PROMPT \o <<"\n","P","r","e","v","i","o","u","s",":"," ">> (* \nPrevious:  *) \o HistoryText(history) \o <<"\n","Q",":"," ">> (* \nQ:  *) \o question \o <<"\n","A",":">> (* \nA: *)

\* entries of conversation_history up to which follow-up questions are put
\* (each follow_up adds two: the prompt and the answer)
MaxHistory == 4

FollowUpInputs == UserInputs \cup {
    <<"a","n","d"," ","f","o","r"," ","l","a","s","t"," ","m","o","n","t","h","?">> (* and for last month? *), <<"s","o","r","t"," ","t","h","e","m"," ","b","y"," ","b","a","l","a","n","c","e">> (* sort them by balance *), <<"h","e","l","l","o">> (* hello *), <<"o","n","l","y"," ","t","h","e"," ","s","a","v","i","n","g","s"," ","o","n","e","s">> (* only the savings ones *),
    <<"w","h","a","t"," ","a","b","o","u","t"," ","b","r","a","n","c","h"," ","3">> (* what about branch 3 *), <<"s","h","o","w"," ","t","h","e"," ","s","a","m","e"," ","f","o","r"," ","e","m","p","l","o","y","e","e","s">> (* show the same for employees *), <<"c","o","u","n","t"," ","t","h","e","m">> (* count them *) }

InitFollowUp == Init

\* follow_up(user_input): get_context, the prompt, process_query(prompt) up to
\* its first return or to the call of the generator
FollowUp(ui) ==
    /\ pc = "idle"
    /\ Len(conversation_history) + 2 <= MaxHistory
    /\ \E prompt \in {follow_up_prompt(ui, conversation_history)} :
       \E history \in {Append(conversation_history, [user |-> prompt])},
          ambiguity_check \in {check_ambiguity(prompt, None)} :
           IF needs_clarification(ambiguity_check)
           THEN LET resp == [type |-> "clarification_needed", sql |-> None,
                             explanation |-> ambiguity_check.explanation,
                             follow_up_questions |-> ambiguity_check.questions,
                             confidence |-> 3, result |-> None]
                IN  /\ response' = resp
                    /\ conversation_history' = Append(history, [agent |-> resp])
                    /\ calls' = <<>>
                    /\ pc' = "idle"
           ELSE /\ pc' = "generating"
                /\ calls' = << [op |-> "llm.invoke"] >>
                /\ conversation_history' = history
                /\ response' = None
    /\ user_input' = ui
    /\ UNCHANGED << turns, context, sql_result, sql, queries_processed, last_query_result,
                    query_results, validatorVars, testVars >>

NextFollowUp == \E ui \in FollowUpInputs : FollowUp(ui)

SpecFollowUp == InitFollowUp /\ [][NextFollowUp]_vars

----------------------------------------------------------------------------
(* Validators built with any level name (SpecLevels)                       *)

\* level names given to the constructor: the three levels, other spellings
\* of them, and names that are no level
LevelNames == { <<"s","t","r","i","c","t">> (* strict *), <<"S","T","R","I","C","T">> (* STRICT *), <<"M","o","d","e","r","a","t","e">> (* Moderate *), <<"l","e","n","i","e","n","t">> (* lenient *), <<"p","a","r","a","n","o","i","d">> (* paranoid *), <<"S","t","r","i","c","t","e","s","t">> (* Strictest *), <<>> }

\* statements of each kind, and other leading words
LevelTexts == {
    <<"S","E","L","E","C","T"," ","*"," ","F","R","O","M"," ","a","c","c","o","u","n","t","s"," ","L","I","M","I","T"," ","5">> (* SELECT * FROM accounts LIMIT 5 *),
    <<"s","e","l","e","c","t"," ","b","a","l","a","n","c","e"," ","f","r","o","m"," ","a","c","c","o","u","n","t","s">> (* select balance from accounts *),
    <<"I","N","S","E","R","T"," ","I","N","T","O"," ","b","r","a","n","c","h","e","s"," ","(","n","a","m","e",")"," ","V","A","L","U","E","S"," ","(","'","x","'",")">> (* INSERT INTO branches (name) VALUES ('x') *),
    <<"i","n","s","e","r","t"," ","i","n","t","o"," ","b","r","a","n","c","h","e","s"," ","(","n","a","m","e",")"," ","v","a","l","u","e","s"," ","(","'","x","'",")">> (* insert into branches (name) values ('x') *),
    <<"U","P","D","A","T","E"," ","a","c","c","o","u","n","t","s"," ","S","E","T"," ","b","a","l","a","n","c","e"," ","="," ","0"," ","W","H","E","R","E"," ","i","d"," ","="," ","1">> (* UPDATE accounts SET balance = 0 WHERE id = 1 *),
    <<"D","E","L","E","T","E"," ","F","R","O","M"," ","a","c","c","o","u","n","t","s"," ","W","H","E","R","E"," ","i","d"," ","="," ","1">> (* DELETE FROM accounts WHERE id = 1 *),
    <<"C","R","E","A","T","E"," ","T","A","B","L","E"," ","x"," ","(","a",")">> (* CREATE TABLE x (a) *),
    <<"R","E","P","L","A","C","E"," ","I","N","T","O"," ","b","r","a","n","c","h","e","s"," ","(","n","a","m","e",")"," ","V","A","L","U","E","S"," ","(","'","x","'",")">> (* REPLACE INTO branches (name) VALUES ('x') *),
    <<"W","I","T","H"," ","a"," ","A","S"," ","(","S","E","L","E","C","T"," ","1",")"," ","S","E","L","E","C","T"," ","*"," ","F","R","O","M"," ","a">> (* WITH a AS (SELECT 1) SELECT * FROM a *) }

InitLevels ==
    /\ InitPipeline
    /\ validation_level \in {StoredLevel(name) : name \in LevelNames}
    /\ v_sql \in LevelTexts
    /\ v_returns = <<>>
    /\ InitCorrectIdle
    /\ InitAmbiguityIdle
    /\ InitSessionsIdle

NextLevels == v_returns = <<>> /\ ValidateCall(v_sql)

SpecLevels == InitLevels /\ [][NextLevels]_vars

----------------------------------------------------------------------------
(* Properties of the pipeline (Spec)                                       *)

Executors == {"validate_and_execute", "execute_query"}

\* the text has a row-limit clause: the word LIMIT, in any case
HasLimitClause(text) == HasWord(Upper(text), <<"L","I","M","I","T">> (* LIMIT *))

\* C1: in every turn a text is passed to an executor (validate_and_execute or
\* execute_query) only after validate_query has returned safe=true and
\* valid=true in that turn
C1_ExecutorOnlyAfterValidation ==
    \A k \in DOMAIN calls :
        calls[k].op \in Executors =>
            \E j \in 1..(k - 1) :
                /\ calls[j].op = "validate_query"
                /\ "result" \in DOMAIN calls[j]
                /\ calls[j].result.safe
                /\ calls[j].result.valid

\* C2: once validate_query has returned safe=false or valid=false,
\* handle_user_query makes no execute_query call in that turn and the result
\* it stores is an error result
C2_RejectedIsNotExecuted ==
    \A k \in DOMAIN calls :
        (/\ calls[k].op = "validate_query"
         /\ "result" \in DOMAIN calls[k]
         /\ ~(calls[k].result.safe /\ calls[k].result.valid)) =>
            /\ \A j \in DOMAIN calls : calls[j].op # "execute_query"
            /\ pc = "idle"
            /\ "error" \in DOMAIN last_query_result
            /\ "data" \notin DOMAIN last_query_result
            /\ "error" \in DOMAIN query_results[Len(query_results)]

\* a turn in which the validator refused the text at the safety check
C2_Witness ==
    /\ pc = "idle"
    /\ \E k \in DOMAIN calls :
        /\ calls[k].op = "validate_query"
        /\ "result" \in DOMAIN calls[k]
        /\ ~calls[k].result.safe
        /\ k = Len(calls)
    /\ "error" \in DOMAIN last_query_result
    /\ StartsWith(last_query_result.error, <<"S","e","c","u","r","i","t","y"," ","v","a","l","i","d","a","t","i","o","n"," ","f","a","i","l","e","d",":"," ">> (* Security validation failed:  *))

\* C10: every text that reaches an executor has a row-limit clause, whether
\* the generator or the fallback catalogue produced it
C10_ExecutedTextIsBounded ==
    \A k \in DOMAIN calls :
        calls[k].op \in Executors => HasLimitClause(calls[k].sql)

----------------------------------------------------------------------------
(* Properties of the validator (SpecSafety, SpecLog)                       *)

\* some word of the set occurs in q as a whole word, in any letter case
ContainsKeyword(q, words) == \E w \in words : HasWord(Upper(q), w)

\* the first word of q in upper case, leading whitespace skipped; <<>> if
\* q does not start with a word
LeadingWord(q) ==
    LET u == Upper(q)
        b == SkipSpaces(u, 1)
    IN  IF b > Len(u) \/ u[b] \notin WordChars THEN <<>>
        ELSE IF \E j \in b..Len(u) : u[j] \notin WordChars
        THEN SubSeq(u, b, (CHOOSE j \in b..Len(u) :
                              u[j] \notin WordChars /\ \A k \in b..(j - 1) : u[k] \in WordChars) - 1)
        ELSE From(u, b)

DangerousMessage == <<"D","a","n","g","e","r","o","u","s"," ","o","p","e","r","a","t","i","o","n"," ","d","e","t","e","c","t","e","d"," ","(","D","R","O","P","/","T","R","U","N","C","A","T","E","/","A","L","T","E","R"," ","n","o","t"," ","a","l","l","o","w","e","d",")",".">> (* Dangerous operation detected (DROP/TRUNCATE/ALTER not allowed). *)
WhereMessage == <<"D","E","L","E","T","E","/","U","P","D","A","T","E"," ","m","u","s","t"," ","h","a","v","e"," ","a"," ","W","H","E","R","E"," ","c","l","a","u","s","e",".">> (* DELETE/UPDATE must have a WHERE clause. *)
MultipleStatementsMessage == <<"P","o","s","s","i","b","l","e"," ","S","Q","L"," ","i","n","j","e","c","t","i","o","n"," ","a","t","t","e","m","p","t"," ","d","e","t","e","c","t","e","d"," ","(","m","u","l","t","i","p","l","e"," ","s","t","a","t","e","m","e","n","t","s",")",".">> (* Possible SQL injection attempt detected (multiple statements). *)

\* C3: a text that contains DROP, TRUNCATE or ALTER as a whole word, in any
\* letter case and anywhere, gets safe=false from validate_query at every
\* level, whatever the fix steps did to it first
C3_DestructiveAlwaysRejected ==
    \A k \in DOMAIN v_returns :
        ContainsKeyword(v_returns[k].sql, { <<"D","R","O","P">> (* DROP *), <<"T","R","U","N","C","A","T","E">> (* TRUNCATE *), <<"A","L","T","E","R">> (* ALTER *) }) =>
            ~v_returns[k].result.safe

\* a SELECT that a fix step rewrote, with a lower-case alter in it, refused at lenient
C3_Witness ==
    \E k \in DOMAIN v_returns :
        /\ validation_level = <<"l","e","n","i","e","n","t">> (* lenient *)
        /\ LeadingWord(v_returns[k].sql) = <<"S","E","L","E","C","T">> (* SELECT *)
        /\ HasWord(v_returns[k].sql, <<"a","l","t","e","r">> (* alter *))
        /\ validation_log[k].query # v_returns[k].sql
        /\ ~v_returns[k].result.safe
        /\ v_returns[k].result.message = DangerousMessage

\* C4: an UPDATE or DELETE text without the word WHERE gets safe=false from
\* validate_query at every level
C4_MutationWithoutWhereRejected ==
    \A k \in DOMAIN v_returns :
        ( /\ LeadingWord(v_returns[k].sql) \in { <<"U","P","D","A","T","E">> (* UPDATE *), <<"D","E","L","E","T","E">> (* DELETE *) }
          /\ ~HasWord(Upper(v_returns[k].sql), <<"W","H","E","R","E">> (* WHERE *)) ) =>
            ~v_returns[k].result.safe

\* q is a SELECT statement, a semicolon, and a second statement that begins
\* with one of the keywords
SelectThenStatement(q, keywords) ==
    LET u == Upper(q)
        semi == Find(u, << ";" >>)
    IN  /\ WordAt(u, 1, <<"S","E","L","E","C","T">> (* SELECT *))
        /\ semi > 0
        /\ \E w \in keywords : WordAt(u, SkipSpaces(u, semi + 1), w)

MutatingKeywords == { <<"D","R","O","P">> (* DROP *), <<"D","E","L","E","T","E">> (* DELETE *), <<"U","P","D","A","T","E">> (* UPDATE *), <<"I","N","S","E","R","T">> (* INSERT *), <<"C","R","E","A","T","E">> (* CREATE *), <<"A","L","T","E","R">> (* ALTER *), <<"T","R","U","N","C","A","T","E">> (* TRUNCATE *) }

\* C5 as stated: a SELECT statement followed by a semicolon and a statement
\* that begins with a mutating keyword gets safe=false with an injection
\* message, at every level
C5_SecondStatementIsInjection ==
    \A k \in DOMAIN v_returns :
        SelectThenStatement(v_returns[k].sql, MutatingKeywords) =>
            /\ ~v_returns[k].result.safe
            /\ Contains(Lower(v_returns[k].result.message), <<"i","n","j","e","c","t","i","o","n">> (* injection *))

\* C5 as amended: such a text gets safe=false at every level; the message is
\* the dangerous-operation message when DROP, TRUNCATE or ALTER is a word of
\* the text, else the WHERE message when DELETE or UPDATE is a word of it and
\* WHERE occurs nowhere, else the multiple-statements injection message
C5_SecondStatementRejected ==
    \A k \in DOMAIN v_returns :
        SelectThenStatement(v_returns[k].sql, MutatingKeywords) =>
            /\ ~v_returns[k].result.safe
            /\ ~v_returns[k].result.valid
            /\ v_returns[k].result.message =
                 IF ContainsKeyword(v_returns[k].sql, { <<"D","R","O","P">> (* DROP *), <<"T","R","U","N","C","A","T","E">> (* TRUNCATE *), <<"A","L","T","E","R">> (* ALTER *) })
                 THEN DangerousMessage
                 ELSE IF /\ ContainsKeyword(v_returns[k].sql, { <<"D","E","L","E","T","E">> (* DELETE *), <<"U","P","D","A","T","E">> (* UPDATE *) })
                         /\ ~Contains(Upper(v_returns[k].sql), <<"W","H","E","R","E">> (* WHERE *))
                 THEN WhereMessage
                 ELSE MultipleStatementsMessage

\* a SELECT followed by an INSERT, refused at lenient as multiple statements
C5_Witness ==
    \E k \in DOMAIN v_returns :
        /\ validation_level = <<"l","e","n","i","e","n","t">> (* lenient *)
        /\ SelectThenStatement(v_returns[k].sql, { <<"I","N","S","E","R","T">> (* INSERT *) })
        /\ ~v_returns[k].result.safe
        /\ v_returns[k].result.message = MultipleStatementsMessage

\* the words that begin an SQL statement the validator knows of
StatementKeywords ==
    { <<"S","E","L","E","C","T">> (* SELECT *), <<"I","N","S","E","R","T">> (* INSERT *), <<"U","P","D","A","T","E">> (* UPDATE *), <<"D","E","L","E","T","E">> (* DELETE *), <<"D","R","O","P">> (* DROP *), <<"C","R","E","A","T","E">> (* CREATE *), <<"A","L","T","E","R">> (* ALTER *), <<"T","R","U","N","C","A","T","E">> (* TRUNCATE *), <<"R","E","P","L","A","C","E">> (* REPLACE *) }

\* the whitelist of each level, as the claim gives it
Admitted(level) ==
    IF level = <<"s","t","r","i","c","t">> (* strict *) THEN { <<"S","E","L","E","C","T">> (* SELECT *) }
    ELSE IF level = <<"m","o","d","e","r","a","t","e">> (* moderate *) THEN { <<"S","E","L","E","C","T">> (* SELECT *), <<"U","P","D","A","T","E">> (* UPDATE *), <<"D","E","L","E","T","E">> (* DELETE *) }
    ELSE { <<"S","E","L","E","C","T">> (* SELECT *), <<"U","P","D","A","T","E">> (* UPDATE *), <<"D","E","L","E","T","E">> (* DELETE *), <<"I","N","S","E","R","T">> (* INSERT *) }

\* the levels from the strictest to the most lenient
LevelOrder == << <<"s","t","r","i","c","t">> (* strict *), <<"m","o","d","e","r","a","t","e">> (* moderate *), <<"l","e","n","i","e","n","t">> (* lenient *) >>

C7_OneLogEntryPerCall ==
    [][ v_returns' # v_returns =>
          /\ Len(validation_log') = Len(validation_log) + 1
          /\ SubSeq(validation_log', 1, Len(validation_log)) = validation_log
          /\ Len(validation_log') = Len(v_returns')
          /\ \A k \in DOMAIN v_returns' : validation_log'[k].result = v_returns'[k].result ]_vars

\* three calls: one passed, one refused by the safety check, one by the syntax check
C7_Witness ==
    /\ Len(validation_log) = 3
    /\ Len(v_returns) = 3
    /\ validation_log[1].result.safe /\ validation_log[1].result.valid
    /\ validation_log[2].result.message = DangerousMessage
    /\ StartsWith(validation_log[3].result.message, <<"S","Q","L"," ","s","y","n","t","a","x"," ","e","r","r","o","r",":"," ">> (* SQL syntax error:  *))

----------------------------------------------------------------------------
(* Properties of the correction steps (SpecCorrect)                        *)

\* the number of times the word LIMIT, in any case, occurs in s from index from on
RECURSIVE LimitCountFrom(_, _)
LimitCountFrom(u, from) ==
    LET i == NextWord(u, <<"L","I","M","I","T">> (* LIMIT *), from) IN
    IF i = 0 THEN 0 ELSE 1 + LimitCountFrom(u, i + 5)

LimitCount(s) == LimitCountFrom(Upper(s), 1)

\* C8: correcting a corrected text changes nothing: correct(correct(q)) = correct(q)
C8_CorrectionIdempotent ==
    Len(c_out) >= 2 => c_out[2] = c_out[1]

\* C9: a text without a row-limit clause is corrected to a text with exactly
\* one LIMIT clause, which stands after the ORDER BY clause if there is one;
\* a text with one row-limit clause keeps exactly that one
C9_ExactlyOneLimit ==
    (Len(c_out) >= 1 /\ LimitCount(c_in) <= 1) =>
        /\ LimitCount(c_out[1]) = 1
        /\ (LimitCount(c_in) = 0 /\ Contains(Upper(c_out[1]), <<"O","R","D","E","R"," ","B","Y">> (* ORDER BY *))) =>
              NextWord(Upper(c_out[1]), <<"L","I","M","I","T">> (* LIMIT *), 1) > Find(Upper(c_out[1]), <<"O","R","D","E","R"," ","B","Y">> (* ORDER BY *))

\* the number of times the word w occurs in u from index from on
RECURSIVE CountWordFrom(_, _, _)
CountWordFrom(u, w, from) ==
    LET i == NextWord(u, w, from) IN
    IF i = 0 THEN 0 ELSE 1 + CountWordFrom(u, w, i + Len(w))

\* the number of times the word w occurs in s, in any letter case (w in lower case)
CountWord(s, w) == CountWordFrom(Lower(s), w, 1)

\* the word date at index i of u opens a function call: a parenthesis follows it
DateCallAt(u, i) ==
    LET after == SkipSpaces(u, i + 4) IN after <= Len(u) /\ u[after] = "("

\* the number of date(...) calls in u from index from on
RECURSIVE DateCallsFrom(_, _)
DateCallsFrom(u, from) ==
    LET i == NextWord(u, <<"d","a","t","e">> (* date *), from) IN
    IF i = 0 THEN 0
    ELSE (IF DateCallAt(u, i) THEN 1 ELSE 0) + DateCallsFrom(u, i + 4)

DateCalls(s) == DateCallsFrom(Lower(s), 1)

\* the number of uses of the word date as a column
DateColumns(s) == CountWord(s, <<"d","a","t","e">> (* date *)) - DateCalls(s)

CompoundDateColumns == { <<"d","a","t","e","_","o","f","_","b","i","r","t","h">> (* date_of_birth *), <<"b","i","r","t","h","_","d","a","t","e">> (* birth_date *), <<"h","i","r","e","_","d","a","t","e">> (* hire_date *), <<"o","p","e","n","e","d","_","a","t">> (* opened_at *) }

\* C11: correction rewrites every standalone word date (any case) to
\* transaction_date, leaves date_of_birth, birth_date, hire_date and opened_at
\* as they are, and leaves every date(...) function call a function call
C11_DateColumnRewritten ==
    Len(c_out) >= 1 =>
        /\ DateColumns(c_out[1]) = 0
        /\ CountWord(c_out[1], <<"t","r","a","n","s","a","c","t","i","o","n","_","d","a","t","e">> (* transaction_date *)) =
              CountWord(c_in, <<"t","r","a","n","s","a","c","t","i","o","n","_","d","a","t","e">> (* transaction_date *)) + DateColumns(c_in)
        /\ DateCalls(c_out[1]) = DateCalls(c_in)
        /\ \A w \in CompoundDateColumns : CountWord(c_out[1], w) = CountWord(c_in, w)

\* the number of non-overlapping occurrences of p in s from index from on
RECURSIVE CountMatchFrom(_, _, _)
CountMatchFrom(s, p, from) ==
    LET i == NextMatch(s, p, from) IN
    IF i = 0 THEN 0 ELSE 1 + CountMatchFrom(s, p, i + Len(p))

\* the number of uses of the word name in s (first_name and last_name are other words)
NameRefs(s) == CountWord(s, <<"n","a","m","e">> (* name *))

\* the number of column aliases AS name in s
NameAliases(s) == CountMatchFrom(s, <<" ","A","S"," ","n","a","m","e">> (*  AS name *), 1)

\* C12: a candidate query on the customer table that uses a name column
\* (c.name, customers.name, a bare SELECT target, a list position, WHERE,
\* ORDER BY or LIKE) is corrected so that every such use is the
\* concatenation of first_name and last_name, and a LIMIT clause it had is
\* still its only one
C12_NameBecomesConcatenation ==
    (Len(c_out) >= 1 /\ NameRefs(c_in) >= 1 /\ Contains(c_in, <<"c","u","s","t","o","m","e","r","s">> (* customers *))) =>
        /\ CountMatchFrom(c_out[1], <<" ","|","|"," ","'"," ","'"," ","|","|"," ">> (*  || ' ' ||  *), 1) = NameRefs(c_in)
        /\ CountWord(c_out[1], <<"f","i","r","s","t","_","n","a","m","e">> (* first_name *)) = NameRefs(c_in)
        /\ CountWord(c_out[1], <<"l","a","s","t","_","n","a","m","e">> (* last_name *)) = NameRefs(c_in)
        /\ NameRefs(c_out[1]) = NameAliases(c_out[1])
        /\ LimitCount(c_in) = 1 => LimitCount(c_out[1]) = 1

----------------------------------------------------------------------------
(* Properties of clarification                                             *)

\* the turn was given a context with a clarifications key
ClarifiedTurn == context # None /\ "clarifications" \in DOMAIN context

\* the stored results that ask for clarification
ClarificationRounds ==
    {k \in DOMAIN query_results : Get(query_results[k], "type", "none") = "clarification_needed"}

\* C13: with a context that has a clarifications key (empty mapping or not),
\* check_ambiguity answers not ambiguous with no questions, whatever the text;
\* such a turn never returns clarification_needed, so a query is asked for
\* clarification at most once
C13_ClarifiedTurnIsNotAmbiguous ==
    /\ ClarifiedTurn =>
         /\ \E ambiguity_check \in {check_ambiguity(user_input, context)} :
               /\ ~ambiguity_check.is_ambiguous
               /\ ambiguity_check.questions = <<>>
         /\ response # None => response.type # "clarification_needed"
    /\ Cardinality(ClarificationRounds) <= turns

\* a clarified turn whose text would be ambiguous on its own is past the check
C13_Witness ==
    /\ ClarifiedTurn
    /\ _simple_ambiguity_check(user_input).is_ambiguous
    /\ Cardinality(ClarificationRounds) = 1
    /\ pc = "generating"

\* C14: a turn whose context has a clarifications key, empty or holding the
\* user's answers, passes the ambiguity check and calls the generator: it
\* does not end in clarification_needed and does not fail before llm.invoke
C14_ClarifiedTurnReachesGenerator ==
    ClarifiedTurn =>
        /\ response # None => response.type # "clarification_needed"
        /\ Len(calls) >= 1
        /\ calls[1].op = "llm.invoke"

\* the trigger terms in the order of their priority: time, magnitude,
\* identity, quantity, then the catch-all
TriggerTerms == << <<"r","e","c","e","n","t">> (* recent *), <<"o","l","d">> (* old *), <<"l","a","r","g","e">> (* large *), <<"s","m","a","l","l">> (* small *), <<"h","i","g","h">> (* high *), <<"l","o","w">> (* low *),
                   <<"m","y">> (* my *), <<"j","o","h","n">> (* john *), <<"s","m","i","t","h">> (* smith *), <<"m","a","n","y">> (* many *), <<"f","e","w">> (* few *), <<"t","r","a","n","s","a","c","t","i","o","n","s">> (* transactions *) >>

\* the ranks of the trigger terms the text contains, in any case
TermsIn(text) == {k \in DOMAIN TriggerTerms : Contains(Lower(text), TriggerTerms[k])}

\* the questions and the explanation that go with a term
PatternOf(term) == ambiguity_patterns[CHOOSE k \in DOMAIN ambiguity_patterns : ambiguity_patterns[k].term = term]

\* C15: with no clarifications context, a request that contains trigger terms
\* is answered ambiguous with the explanation and the first two questions (or
\* the only one) of the term of highest priority among them, and with nothing
\* of any other term; a request with both recent and large gets the
\* explanation and the questions of recent
C15_HighestPriorityTermWins ==
    (a_out # None /\ a_ctx = None /\ TermsIn(a_in) # {}) =>
        \E top \in {PatternOf(TriggerTerms[CHOOSE k \in TermsIn(a_in) : \A j \in TermsIn(a_in) : k <= j])} :
            /\ a_out.is_ambiguous
            /\ a_out.explanation = top.explanation
            /\ Len(a_out.questions) <= 2
            /\ Len(a_out.questions) = (IF Len(top.questions) < 2 THEN Len(top.questions) ELSE 2)
            /\ \A i \in DOMAIN a_out.questions : a_out.questions[i] = top.questions[i]
            /\ ({1, 3} \subseteq TermsIn(a_in)) =>
                  /\ a_out.explanation = <<"I"," ","n","e","e","d"," ","t","o"," ","k","n","o","w"," ","w","h","a","t"," ","t","i","m","e"," ","p","e","r","i","o","d"," ","y","o","u"," ","c","o","n","s","i","d","e","r"," ","'","r","e","c","e","n","t","'",".">> (* I need to know what time period you consider 'recent'. *)
                  /\ a_out.questions[1] = <<"H","o","w"," ","r","e","c","e","n","t","?"," ","(","e",".","g",".",","," ","'","l","a","s","t"," ","7"," ","d","a","y","s","'",","," ","'","l","a","s","t"," ","m","o","n","t","h","'",","," ","'","t","h","i","s"," ","y","e","a","r","'",")">> (* How recent? (e.g., 'last 7 days', 'last month', 'this year') *)

\* a request with both recent and large has been classified
C15_Witness ==
    /\ a_out # None
    /\ a_ctx = None
    /\ {1, 3} \subseteq TermsIn(a_in)
    /\ a_out.is_ambiguous

\* C16: when the ambiguity check answers ambiguous the turn ends there:
\* process_query returns a clarification_needed response with the
\* classifier's explanation and questions, no SQL and no result, and the
\* turn calls neither the generator nor the validator nor an executor
C16_AmbiguousTurnEndsThere ==
    \E ambiguity_check \in {IF user_input # None THEN check_ambiguity(user_input, context) ELSE None} :
    (user_input # None /\ ambiguity_check.is_ambiguous) =>
        /\ pc = "idle"
        /\ calls = <<>>
        /\ response.type = "clarification_needed"
        /\ response.explanation = ambiguity_check.explanation
        /\ response.follow_up_questions = ambiguity_check.questions
        /\ response.sql = None
        /\ response.result = None
        /\ sql = None
        /\ last_query_result.type = "clarification_needed"
        /\ last_query_result.follow_up_questions = response.follow_up_questions
        /\ last_query_result.explanation = response.explanation

\* an ambiguous request has been answered
C16_Witness ==
    /\ user_input # None
    /\ check_ambiguity(user_input, context).is_ambiguous
    /\ response.type = "clarification_needed"
    /\ turns = 1

----------------------------------------------------------------------------
(* Properties of failure handling                                          *)

\* the generator call of the turn has raised
GeneratorFailed == Len(calls) >= 1 /\ "raised" \in DOMAIN calls[1]

\* the error text names a quota or rate-limit condition
QuotaCondition(e) ==
    \E mark \in { <<"q","u","o","t","a">> (* quota *), <<"4","2","9">> (* 429 *), <<"r","e","s","o","u","r","c","e","e","x","h","a","u","s","t","e","d">> (* resourceexhausted *) } : Contains(Lower(e), mark)

\* the catalog entries whose keyword the request contains
FallbackMatches(text) == {k \in DOMAIN fallback_patterns : Contains(Lower(text), fallback_patterns[k][1])}

\* the query of the first of them, or the recent-activity default
FallbackFor(text) ==
    IF FallbackMatches(text) = {} THEN default_fallback
    ELSE fallback_patterns[CHOOSE k \in FallbackMatches(text) : \A j \in FallbackMatches(text) : k <= j][2]

\* the confidence of a query the generator produced
NormalConfidence == GeneratedSQL(<<"S","E","L","E","C","T"," ","1">> (* SELECT 1 *)).confidence

\* C17: when the generator call fails with a quota or rate-limit error the
\* turn goes on with the fallback query of the first catalog keyword the
\* request contains (the default when it contains none), at a confidence
\* below that of a generated query; on any other failure process_query returns
\* an error response with the raw failure message and no SQL, and the turn
\* calls neither the validator nor an executor
C17_GeneratorFailureHandled ==
    GeneratorFailed =>
        IF QuotaCondition(calls[1].raised)
        THEN \E fallback \in {FallbackFor(user_input)} :
             /\ sql_result.type = "success"
             /\ sql_result.sql = fallback
             /\ sql_result.confidence < NormalConfidence
             /\ pc \in {"agent_executing", "validating"} => sql = fallback
             /\ pc # "agent_executing" =>
                   /\ Len(calls) >= 2
                   /\ calls[2].op = "validate_and_execute"
                   /\ calls[2].sql = fallback
                   /\ response.type = "success"
                   /\ response.sql = fallback
                   /\ response.confidence = sql_result.confidence
        ELSE /\ pc = "idle"
             /\ response.type = "error"
             /\ response.explanation = <<"S","Q","L"," ","g","e","n","e","r","a","t","i","o","n"," ","f","a","i","l","e","d",":"," ">> (* SQL generation failed:  *) \o calls[1].raised
             /\ response.sql = None
             /\ response.result = None
             /\ Len(calls) = 1

\* a quota failure on a request with two catalog keywords has been answered
\* from the catalog
C17_Witness ==
    /\ GeneratorFailed
    /\ QuotaCondition(calls[1].raised)
    /\ Cardinality(FallbackMatches(user_input)) >= 2
    /\ pc = "validating"
    /\ response.confidence < NormalConfidence

\* the validate_query calls of the turn that answered safe=false or valid=false
Rejections == {k \in DOMAIN calls : /\ calls[k].op = "validate_query"
                                     /\ "result" \in DOMAIN calls[k]
                                     /\ ~(calls[k].result.safe /\ calls[k].result.valid)}

\* C18: when validation fails, the stored response carries the validator's
\* message, the validator's suggestion when it gave one, and the text the
\* validator checked (the text after its fix steps)
C18_RejectionSurfacesValidatorAnswer ==
    \A k \in Rejections :
        /\ pc = "idle"
        /\ Contains(last_query_result.error, calls[k].result.message)
        /\ "suggestion" \in DOMAIN calls[k].result =>
              last_query_result.suggestion = calls[k].result.suggestion
        /\ last_query_result.sql = validation_log[Len(validation_log)].query

\* the execute_query calls of the turn in which the database raised
FailedRuns == {k \in DOMAIN calls : calls[k].op = "execute_query" /\ "error" \in DOMAIN calls[k]}

\* C19: when the live run of a validated query fails, the turn still ends
\* with a stored result, and that result is an execution failure (status
\* error, not success) that carries the database's error text
C19_FailedRunIsReported ==
    \A k \in FailedRuns :
        /\ pc = "idle"
        /\ last_query_result.status = "error"
        /\ "error" \in DOMAIN last_query_result
        /\ Contains(last_query_result.error, <<"D","a","t","a","b","a","s","e"," ","e","x","e","c","u","t","i","o","n"," ","f","a","i","l","e","d",":"," ">> (* Database execution failed:  *) \o calls[k].error)

----------------------------------------------------------------------------
(* Properties of callers that share the agent and the validator            *)

\* the callers that have written to the agent's conversation_history
ConversationWriters == {c \in Callers : sessions[c].history # {}}

\* the callers that have written the agent's queries_processed counter
CounterWriters == {c \in Callers : sessions[c].counted > 0}

\* every validate_query call of every caller has its own entry in the
\* validation_log, as the call wrote it, and the log has no other entry
AuditIntact ==
    /\ \A c \in Callers : \A i \in DOMAIN sessions[c].audit :
          /\ sessions[c].audit[i] \in DOMAIN validation_log
          /\ validation_log[sessions[c].audit[i]] = sessions[c].logged[i]
    /\ \A c, d \in Callers : \A i \in DOMAIN sessions[c].audit : \A j \in DOMAIN sessions[d].audit :
          sessions[c].audit[i] = sessions[d].audit[j] => (c = d /\ i = j)
    /\ \A k \in DOMAIN validation_log :
          \E c \in Callers : \E i \in DOMAIN sessions[c].audit : sessions[c].audit[i] = k

\* C20: callers whose turns interleave on the one cached agent and validator
\* share only the validation log: the conversation data and the counter of
\* the agent are written by the turns of one caller at most, and N
\* validate_query calls leave exactly N intact entries in validation_log
C20_CallersShareOnlyLogs ==
    /\ Cardinality(ConversationWriters) <= 1
    /\ Cardinality(CounterWriters) <= 1
    /\ AuditIntact

----------------------------------------------------------------------------
(* Properties of the validator's checks                                    *)

CheckOrder == << "check_safety", "parse_sql", "_validate_schema" >>

\* C21: validate_query runs safety, syntax probe, schema check in that order
\* and stops at the first that fails: the EXPLAIN probe is issued only when
\* the safety check passed, the schema check runs only when the probe passed,
\* and the verdict and message returned are those of the first failing check
C21_ChecksInOrderShortCircuit ==
    \A k \in DOMAIN v_returns :
        \E ran \in {v_returns[k].ran}, fixed \in {validation_log[k].query} :
        \E safety \in {check_safety(fixed, validation_level)}, schema \in {_validate_schema(fixed)} :
            /\ ran = SubSeq(CheckOrder, 1, Len(ran))
            /\ Len(ran) >= 1
            /\ (Len(ran) >= 2) <=> safety.safe
            /\ (Len(ran) = 3) <=> (safety.safe /\ v_returns[k].explain = None)
            /\ v_returns[k].result.message =
                 IF ~safety.safe THEN safety.message
                 ELSE IF v_returns[k].explain # None
                 THEN <<"S","Q","L"," ","s","y","n","t","a","x"," ","e","r","r","o","r",":"," ">> (* SQL syntax error:  *) \o v_returns[k].explain
                 ELSE IF ~schema.valid THEN schema.message
                 ELSE <<"Q","u","e","r","y"," ","i","s"," ","v","a","l","i","d",".">> (* Query is valid. *)
            /\ v_returns[k].result.safe <=> (Len(ran) = 3 /\ schema.valid)
            /\ v_returns[k].result.valid <=> (Len(ran) = 3 /\ schema.valid)

\* a text that passes the safety check fails the probe and would have failed
\* the schema check too: the syntax message is returned
C21_Witness ==
    \E k \in DOMAIN v_returns :
        /\ v_returns[k].ran = << "check_safety", "parse_sql" >>
        /\ ~_validate_schema(validation_log[k].query).valid
        /\ StartsWith(v_returns[k].result.message, <<"S","Q","L"," ","s","y","n","t","a","x"," ","e","r","r","o","r",":"," ">> (* SQL syntax error:  *))

----------------------------------------------------------------------------
(* Properties of the correction steps (SpecRules)                          *)

\* the statement reads several tables: a join, or two schema tables named
MultiTable(q) ==
    \/ HasWord(Upper(q), <<"J","O","I","N">> (* JOIN *))
    \/ Cardinality({t \in SchemaTables : HasWord(Lower(q), t)}) >= 2

\* an alias-qualified ambiguous column qualified once more
DoublyQualified(q) ==
    \E f \in QualifiedForms : \E a \in {<<"t",".">> (* t. *), <<"a",".">> (* a. *), <<"c",".">> (* c. *)} : Contains(q, a \o f)

\* C22: the disambiguation rule qualifies a bare type, status or id with the
\* transaction alias only in a statement over several tables; it leaves a
\* statement over a single table unchanged, and it never qualifies twice a
\* reference that is already qualified.
C22_QualifiesOnlyMultiTable ==
    (Len(c_out) = 5) =>
        /\ (~MultiTable(c_in) => c_out[3] = c_in)
        /\ (~DoublyQualified(c_in) => ~DoublyQualified(c_out[3]))

\* a listed misspelling stands in the text as a whole word, in any case
MisspelledWord(q) ==
    \E k \in 1..Len(typo_fixes) : HasWord(Lower(q), typo_fixes[k][1])

\* C23: typo correction replaces only whole-word occurrences, in any case, of
\* the listed misspellings; a text in which none of them stands as a whole
\* word (well-spelled table names and identifiers built from them, such as
\* employees or employee_id, included) is left unchanged by the rule.
C23_TypoWholeWordOnly ==
    (Len(c_out) = 5 /\ ~MisspelledWord(c_in)) => c_out[5] = c_in

\* the text names a table of the schema
ReferencesTable(q) == \E table \in SchemaTables : HasWord(Lower(q), table)

\* the text names a column of the schema
ReferencesColumn(q) == \E col \in SchemaColumns : HasWord(Lower(q), col)

\* the text satisfies the column requirement of the schema-reference check
ColumnRequirement(q) ==
    \/ SelectStar(Lower(q))
    \/ SelectCountStar(Lower(q))
    \/ AggregateCall(Lower(q))
    \/ ReferencesColumn(q)

\* C24: the schema-reference check passes exactly when the text references a
\* known table and, besides, uses a wildcard projection or count-star, calls
\* an aggregate function, or references a known column; without a known
\* table it fails with the no-valid-table message, otherwise with the
\* no-valid-column message.
C24_SchemaCheck ==
    \A i \in 1..Len(v_returns) :
        (v_returns[i].op = "_validate_schema") =>
            \E q \in {v_returns[i].sql} : \E r \in {v_returns[i].result} :
                /\ r.valid <=> (ReferencesTable(q) /\ ColumnRequirement(q))
                /\ ~ReferencesTable(q) => r.message = <<"N","o"," ","v","a","l","i","d"," ","t","a","b","l","e"," ","r","e","f","e","r","e","n","c","e","d"," ","i","n"," ","q","u","e","r","y",".">> (* No valid table referenced in query. *)
                /\ (ReferencesTable(q) /\ ~ColumnRequirement(q))
                      => r.message = <<"N","o"," ","v","a","l","i","d"," ","c","o","l","u","m","n"," ","r","e","f","e","r","e","n","c","e","d"," ","i","n"," ","q","u","e","r","y",".">> (* No valid column referenced in query. *)

----------------------------------------------------------------------------
(* Properties of the classifier's short-request rule (SpecAmbiguity)       *)

\* no trigger term occurs in the request
NoTriggerTerm(q) ==
    \A k \in 1..Len(ambiguity_patterns) : ~Contains(Lower(q), ambiguity_patterns[k].term)

\* the request starts with one of the action verbs
StartsWithActionVerb(q) == \E word \in ActionVerbs : StartsWith(Lower(q), word)

GenericQuestions ==
    << <<"W","h","a","t"," ","s","p","e","c","i","f","i","c"," ","i","n","f","o","r","m","a","t","i","o","n"," ","a","r","e"," ","y","o","u"," ","l","o","o","k","i","n","g"," ","f","o","r","?">> (* What specific information are you looking for? *),
       <<"A","n","y"," ","p","a","r","t","i","c","u","l","a","r"," ","t","i","m","e"," ","p","e","r","i","o","d"," ","o","r"," ","a","m","o","u","n","t"," ","r","a","n","g","e","?">> (* Any particular time period or amount range? *) >>

\* C25: for a request without a trigger term, check_ambiguity answers
\* ambiguous, with exactly the two generic questions, when the request has
\* at most 3 words and does not start with show, find, list or display;
\* in every other case without a trigger term it answers not ambiguous.
C25_ShortRequestRule ==
    (a_out # None /\ a_ctx = None /\ NoTriggerTerm(a_in)) =>
        IF WordCount(a_in) <= 3 /\ ~StartsWithActionVerb(a_in)
        THEN a_out.is_ambiguous /\ a_out.questions = GenericQuestions
        ELSE ~a_out.is_ambiguous

----------------------------------------------------------------------------
(* Properties of the connection retry and of the stages of a turn (Spec)   *)

\* the get_connection calls of the turn, as execute_query recorded them
Connections == {calls[k].connection : k \in {j \in DOMAIN calls : calls[j].op = "execute_query"}}

\* C26: get_connection ends after at most `retries` (3) attempts: it returns
\* at the first attempt that succeeds, sleeps delay * 2^k after the k-th
\* failed attempt (k from 0), and raises OperationalError once all attempts
\* have failed; and no stage of the pipeline (generation, correction and
\* validation with its dry run, execution) is run a second time in a turn.
C26_BoundedConnectionRetryOnly ==
    /\ \A c \in Connections :
        /\ c.attempts <= DefaultRetries
        /\ \A j \in DOMAIN c.slept : c.slept[j] = DefaultDelay * (2 ^ (j - 1))
        /\ IF c.returned
           THEN Len(c.slept) = c.attempts - 1
           ELSE /\ c.attempts = DefaultRetries
                /\ Len(c.slept) = DefaultRetries
                /\ c.error = <<"F","a","i","l","e","d"," ","t","o"," ","c","o","n","n","e","c","t"," ","t","o"," ","d","a","t","a","b","a","s","e"," ","a","f","t","e","r"," ","3"," ","a","t","t","e","m","p","t","s",".">> (* Failed to connect to database after 3 attempts. *)
    /\ \A j, k \in DOMAIN calls : (calls[j].op = calls[k].op) => j = k

\* the connection was returned at the third attempt, after sleeps of 1 and 2
C26_Witness ==
    /\ pc = "idle"
    /\ \E c \in Connections : c.returned /\ c.attempts = 3 /\ c.slept = << 1, 2 >>
    /\ Len(calls) = 4

----------------------------------------------------------------------------
(* Properties of validate_query's result (SpecSafety)                      *)

\* C27: every result of validate_query carries both flags with safe = valid
\* (a failure of any of the three checks sets both to false), and it has the
\* key sql exactly when both are true; its value is then the corrected text
\* on which the three checks ran.
C27_FlagsAgreeAndSqlOnSuccess ==
    \A i \in 1..Len(v_returns) :
        \E r \in {v_returns[i].result} :
            /\ {"safe", "valid"} \subseteq DOMAIN r
            /\ r.safe = r.valid
            /\ ("sql" \in DOMAIN r) <=> (r.safe /\ r.valid)
            /\ ("sql" \in DOMAIN r) =>
                  /\ r.sql = ApplyFixes(v_returns[i].sql)
                  /\ v_returns[i].ran = CheckOrder
            /\ (Len(v_returns[i].ran) < 3) => ~r.safe

\* a text that the fix steps changed was accepted: the result holds the changed text
C27_Witness ==
    \E i \in 1..Len(v_returns) :
        /\ "sql" \in DOMAIN v_returns[i].result
        /\ v_returns[i].result.sql # v_returns[i].sql
        /\ v_returns[i].result.safe /\ v_returns[i].result.valid

\* the validate_query calls of the turn that raised
RaisedValidations == {k \in DOMAIN calls : calls[k].op = "validate_query" /\ "raised" \in DOMAIN calls[k]}

\* C28: when validate_query raises inside handle_user_query, the exception is
\* only logged: the turn goes on to execute_query with the agent's text, and
\* no validation error is stored (validation fails open).
C28_ValidationFailsOpen ==
    \A k \in RaisedValidations :
        /\ sql = calls[k].sql
        /\ IF pc = "idle"
           THEN /\ k < Len(calls)
                /\ calls[k + 1].op = "execute_query"
                /\ calls[k + 1].sql = calls[k].sql
                /\ last_query_result.sql = calls[k].sql
                /\ ~("error" \in DOMAIN last_query_result
                     /\ StartsWith(last_query_result.error, <<"S","e","c","u","r","i","t","y"," ","v","a","l","i","d","a","t","i","o","n"," ","f","a","i","l","e","d",":"," ">> (* Security validation failed:  *)))
           ELSE pc = "executing" /\ k = Len(calls)

\* the validator raised and the text was run all the same, with rows returned
C28_Witness ==
    /\ pc = "idle"
    /\ \E k \in RaisedValidations : calls[k + 1].op = "execute_query" /\ calls[k + 1].outcome = "rows"
    /\ last_query_result.status = "success"

----------------------------------------------------------------------------
(* Properties of follow_up (SpecFollowUp)                                   *)

\* C29: follow_up answers clarification_needed for every question and never
\* calls the generator: the prompt it hands to process_query starts with
\* SYSTEM_PROMPT, which contains the trigger term transactions, and no
\* context goes with it.
C29_FollowUpAlwaysAsksBack ==
    /\ pc = "idle"
    /\ calls = <<>>
    /\ Contains(Lower(SYSTEM_PROMPT), <<"t","r","a","n","s","a","c","t","i","o","n","s">> (* transactions *))
    /\ \A k \in DOMAIN conversation_history :
        \E e \in {conversation_history[k]} :
            IF k % 2 = 1
            THEN "user" \in DOMAIN e /\ StartsWith(e.user, SYSTEM_PROMPT)
            ELSE "agent" \in DOMAIN e /\ e.agent.type = "clarification_needed"
    /\ (conversation_history # <<>>) =>
          /\ response = conversation_history[Len(conversation_history)].agent
          /\ response.sql = None
          /\ response.follow_up_questions # <<>>

\* two follow-ups were put: the second was asked back about a term of the
\* first one's recorded answer (low, in follow_up_questions)
C29_Witness ==
    /\ Len(conversation_history) = 4
    /\ user_input = <<"h","e","l","l","o">> (* hello *)
    /\ response.type = "clarification_needed"
    /\ StartsWith(response.follow_up_questions[1], <<"W","h","a","t"," ","r","a","n","g","e"," ","d","o"," ","y","o","u"," ","c","o","n","s","i","d","e","r"," ","l","o","w","?">> (* What range do you consider low? *))

----------------------------------------------------------------------------
(* Properties of the level a validator is built with (SpecLevels)          *)

NotAllowedMessage == <<"O","p","e","r","a","t","i","o","n"," ","n","o","t"," ","a","l","l","o","w","e","d"," ","i","n"," ">> (* Operation not allowed in  *) \o validation_level \o <<" ","m","o","d","e",".">> (*  mode. *)

\* the text starts with one of the words, whatever the case of its letters
StartsWithAny(q, ops) == \E op \in ops : StartsWith(Upper(q), op)

\* C30: a validator built with a level name other than strict or moderate,
\* compared without regard to case, applies the lenient whitelist SELECT,
\* INSERT, UPDATE, DELETE; strict and moderate in any case keep their own.
C30_UnknownLevelIsLenient ==
    \A i \in 1..Len(v_returns) :
        \E q \in {validation_log[i].query} : \E r \in {v_returns[i].result} :
            \E refused \in {~r.safe /\ r.message = NotAllowedMessage} :
                IF Lower(validation_level) = <<"s","t","r","i","c","t">> (* strict *)
                THEN refused <=> ~StartsWithAny(q, {<<"S","E","L","E","C","T">> (* SELECT *)})
                ELSE IF Lower(validation_level) = <<"m","o","d","e","r","a","t","e">> (* moderate *)
                THEN refused <=> ~StartsWithAny(q, {<<"S","E","L","E","C","T">> (* SELECT *), <<"U","P","D","A","T","E">> (* UPDATE *), <<"D","E","L","E","T","E">> (* DELETE *)})
                ELSE /\ refused <=> ~StartsWithAny(q, {<<"S","E","L","E","C","T">> (* SELECT *), <<"I","N","S","E","R","T">> (* INSERT *), <<"U","P","D","A","T","E">> (* UPDATE *), <<"D","E","L","E","T","E">> (* DELETE *)})
                     /\ check_safety(q, validation_level).safe = check_safety(q, <<"l","e","n","i","e","n","t">> (* lenient *)).safe

\* a validator built with the name paranoid let an INSERT pass the safety check
C30_Witness ==
    /\ validation_level = <<"p","a","r","a","n","o","i","d">> (* paranoid *)
    /\ \E i \in 1..Len(v_returns) :
        /\ StartsWith(validation_log[i].query, <<"I","N","S","E","R","T">> (* INSERT *))
        /\ Len(v_returns[i].ran) >= 2

====
